---- MODULE Spec2Model ----
(***************************************************************************)
(* Model of volume-syncer (github.com/sharedvolume/volume-syncer).         *)
(*                                                                         *)
(* Part 1 (specification Spec): the HTTP handler SyncHandler.Sync and the  *)
(* orchestrator SyncService (IsSyncInProgress, StartSync and the           *)
(* background goroutine StartSync launches), as concurrent request         *)
(* goroutines over one SyncService. SpecLive is Spec with its goroutines   *)
(* scheduled (WF of their steps), for what must eventually happen.         *)
(*                                                                         *)
(* Part 2 (specification SpecGit): GitSyncer.Sync, syncExistingRepo,        *)
(* cloneRepo and safeCloneWithReplace as a step machine over the three     *)
(* directories the job touches (target, staging, backup), the temporary    *)
(* key files and the remote's branches, with every system call whose       *)
(* error the code inspects able to fail.                                   *)
(*                                                                         *)
(* Part 3 (specification SpecSync): SSHSyncer.Sync; SpecSync runs one job   *)
(* of the git strategy or one of the ssh strategy.                         *)
(*                                                                         *)
(* Part 4 (specification SpecFactory): SyncerFactory.CreateSyncer over     *)
(* every combination of present and missing detail fields, with the        *)
(* sessions and connection tests of NewS3Syncer.                           *)
(*                                                                         *)
(* Part 5 (specification SpecShutdown): main from the shutdown signal to   *)
(* the exit of the process, beside one job of the git or ssh strategy.     *)
(*                                                                         *)
(* Part 6 (specification SpecHTTP): HTTPSyncer.Sync over the paths of the  *)
(* URL and the Content-Disposition headers of the response, with texts as  *)
(* sequences of parts and path.Base, path.Join and strings.Trim computed   *)
(* on them.                                                                *)
(*                                                                         *)
(* Part 7 (specification SpecS3): S3Syncer.Sync, listObjects and           *)
(* downloadObject over the prefixes of a job and the keys of its bucket.   *)
(***************************************************************************)
EXTENDS Integers, FiniteSets, Sequences, TLC

\* ---------------------------------------------------------------- bounds
\* Number of concurrent POST /api/1.0/sync requests.
NumRequests == 2

\* The timeout a syncer is built with (GitSyncer.timeout, SSHSyncer.timeout,
\* HTTPSyncer.timeout, S3Syncer.timeout), in ticks of the job's clock.
Timeout == 2

Requests == 1..NumRequests

\* ------------------------------------------------------------- constants
StatusCreated == 201
StatusBadRequest == 400
StatusServiceUnavailable == 503

\* Error texts of StartSync (err.Error() ends up in the response Details).
ErrNone == "none"
ErrBusy == "sync operation already in progress"
ErrValidation == "request validation failed"
ErrCreateSyncer == "failed to create syncer"
ErrBind == "invalid request format"
ErrS3Connection == "failed to create syncer: S3 connection test failed"

\* What a request body is, as far as the admission path can tell:
\*   malformed    ShouldBindJSON fails: not JSON of the right shape
\*   missing_field  ShouldBindJSON fails: a required field is missing
\*   invalid      validateRequest fails
\*   unbuildable  factory.CreateSyncer fails
\*   good         a syncer is built
ReqKinds == {"malformed", "missing_field", "invalid", "unbuildable", "good"}

NoResponse == [code |-> 0, error |-> "none", details |-> "none"]

VARIABLES
    \* ---- SyncService
    syncInProgress,   \* SyncService.syncInProgress
    mutex,            \* SyncService.mutex: the set of goroutines holding it
    \* ---- one goroutine per HTTP request (SyncHandler.Sync)
    hpc,              \* position of request p's handler goroutine
    reqKind,          \* what the body of request p is to the admission path
    body,             \* the body of request p
    ssErr,            \* the error StartSync returned to request p
    resp,             \* the HTTP response written for request p
    \* ---- the background goroutine launched for request p
    task,             \* "none" | "spawned" | "syncing" | "returned" | "resetting" | "done"
    syncOutcome,      \* what syncer.Sync() returned: "none" | "ok" | "error"
    syncerTimeout,    \* the timeout of the syncer built for request p
    \* ---- GitSyncer (Part 2)
    gpc,              \* position inside GitSyncer.Sync
    fs,               \* directory trees at target, staging (tmpDir), backup
    pre,              \* the target tree when Sync was called
    details,          \* GitSyncer.details: which credentials the job carries
    gitResult,        \* what Sync returned
    renames,          \* os.Rename calls made so far, in order
    stagingMade,      \* the job created a staging directory
    remote,           \* the remote repository: its branches and default branch
    branch,           \* the local variable `branch` of Sync / syncExistingRepo
    head,             \* the branch the job's clone or checkout checked out
    keyFiles,         \* the temporary key files that exist in os.TempDir()
    sshCommand,       \* the environment variable GIT_SSH_COMMAND
    \* ---- SSHSyncer (Part 3)
    spc,              \* position inside SSHSyncer.Sync
    sshDetails,       \* SSHSyncer.sshDetails: credentials and remote path
    sshResult,        \* what SSHSyncer.Sync returned
    rsyncSource,      \* the remote path rsync was started with
    \* ---- the job a syncer runs (Parts 2 and 3)
    ops,              \* the subprocesses and network operations Sync() started
    elapsed,          \* ticks since Sync() began, counted up to Timeout
    logged,           \* the log lines written that show a URL, a command or a key
    \* ---- SyncerFactory.CreateSyncer (Part 4)
    fpc,              \* position inside CreateSyncer
    source,           \* the models.Source it was called with
    facErr,           \* the error it returned
    netCalls,         \* the network requests it has made
    pathStyle,        \* S3ForcePathStyle of the session in use
    \* ---- main (Part 5)
    proc,             \* the server process: "serving" | "shutting_down" | "exited"
    \* ---- HTTPSyncer (Part 6)
    dpc,              \* position inside HTTPSyncer.Sync
    httpJob,          \* the path of the job's URL, the status and the
                      \* Content-Disposition of the response
    httpResult,       \* what HTTPSyncer.Sync returned
    filename,         \* the local variable `filename` of Sync
    outPath,          \* the local variable `outPath` of Sync, cleaned, as elements
    created,          \* the files Sync has created, as cleaned paths
    \* ---- S3Syncer (Part 7)
    zpc,              \* position inside S3Syncer.Sync
    s3Job,            \* the prefix of the job and the keys its bucket holds
    s3Result,         \* what S3Syncer.Sync returned
    objects,          \* the objects of the listing still to download
    downloads         \* the keys downloaded, each with the file it was written to

svcVars == <<syncInProgress, mutex, hpc, reqKind, body, ssErr, resp, task, syncOutcome,
            syncerTimeout>>
gitState == <<gpc, fs, pre, details, gitResult, renames, stagingMade,
             remote, branch, head>>
gitVars == <<gpc, fs, pre, details, gitResult, renames, stagingMade,
            remote, branch, head, keyFiles, sshCommand>>
sshVars == <<spc, sshDetails, sshResult, rsyncSource>>
\* What a git job is given and never changes, and its key material.
gitJob == <<pre, details, remote>>
gitKeys == <<keyFiles, sshCommand>>
\* The history of the job in progress.
runVars == <<ops, elapsed, logged>>
vars == <<syncInProgress, mutex, hpc, reqKind, body, ssErr, resp, task, syncOutcome,
          syncerTimeout,
          gpc, fs, pre, details, gitResult, renames, stagingMade,
          remote, branch, head, keyFiles, sshCommand,
          spc, sshDetails, sshResult, rsyncSource,
          ops, elapsed, logged,
          fpc, source, facErr, netCalls, pathStyle,
          proc,
          dpc, httpJob, httpResult, filename, outPath, created,
          zpc, s3Job, s3Result, objects, downloads>>
s3Vars == <<zpc, s3Job, s3Result, objects, downloads>>
httpVars == <<dpc, httpJob, httpResult, filename, outPath, created>>
facVars == <<fpc, source, facErr, netCalls, pathStyle>>
\* What the actions of one part leave alone in the other parts.
notServiceVars == <<gitVars, sshVars, runVars, facVars, proc, httpVars, s3Vars>>
notGitVars == <<svcVars, sshVars, facVars, proc, httpVars, s3Vars>>
notSSHVars == <<svcVars, gitState, sshCommand, facVars, proc, httpVars, s3Vars>>
notFactoryVars == <<svcVars, gitVars, sshVars, runVars, proc, httpVars, s3Vars>>
notMainVars == <<svcVars, gitVars, sshVars, runVars, facVars, httpVars, s3Vars>>
notHTTPVars == <<svcVars, gitVars, sshVars, facVars, proc, s3Vars>>
notS3Vars == <<svcVars, gitVars, sshVars, facVars, proc, httpVars>>

\* =========================================================================
\* Request bodies and what the admission path makes of them
\* =========================================================================

\* Source.Details as parseXDetails sees it: whether it is a JSON object and,
\* per field, whether the field is a non-empty string (a missing field, a
\* field of another type and "" are all treated alike by the parsers);
\* aws: the endpoint URL contains "amazonaws.com".
NoDetails ==
    [isObject |-> FALSE, host |-> FALSE, user |-> FALSE, password |-> FALSE,
     key_path |-> FALSE, privateKey |-> FALSE, path |-> FALSE, url |-> FALSE,
     endpointUrl |-> FALSE, bucketName |-> FALSE, accessKey |-> FALSE,
     secretKey |-> FALSE, region |-> FALSE, aws |-> FALSE]
EmptyObject == [NoDetails EXCEPT !.isObject = TRUE]

SSHSpecs ==
    {[EmptyObject EXCEPT !.host = h, !.user = u, !.password = pw, !.key_path = kp,
                         !.privateKey = pk, !.path = pa] :
        h \in BOOLEAN, u \in BOOLEAN, pw \in BOOLEAN, kp \in BOOLEAN,
        pk \in BOOLEAN, pa \in BOOLEAN}
GitSpecs ==
    {[EmptyObject EXCEPT !.url = r, !.user = u, !.password = pw, !.privateKey = pk] :
        r \in BOOLEAN, u \in BOOLEAN, pw \in BOOLEAN, pk \in BOOLEAN}
HTTPSpecs == {[EmptyObject EXCEPT !.url = r] : r \in BOOLEAN}
S3Specs ==
    {[EmptyObject EXCEPT !.endpointUrl = e, !.bucketName = b, !.path = pa,
                         !.accessKey = ak, !.secretKey = sk, !.region = rg,
                         !.aws = (e /\ aw)] :
        e \in BOOLEAN, b \in BOOLEAN, pa \in BOOLEAN, ak \in BOOLEAN,
        sk \in BOOLEAN, rg \in BOOLEAN, aw \in BOOLEAN}

\* models.Source: a type and details.
Sources ==
    {[type |-> "ssh", details |-> d] : d \in SSHSpecs \cup {NoDetails}}
    \cup {[type |-> "git", details |-> d] : d \in GitSpecs \cup {NoDetails}}
    \cup {[type |-> "http", details |-> d] : d \in HTTPSpecs \cup {NoDetails}}
    \cup {[type |-> "s3", details |-> d] : d \in S3Specs \cup {NoDetails}}
    \cup {[type |-> t, details |-> EmptyObject] : t \in {"ftp", ""}}

\* parseSSHDetails (types.go 106-155): its error, "none" if it returns
\* the details. The remote path is copied if present and never checked.
parseSSHDetailsKeyOnly(d) ==
    IF ~d.isObject THEN "SSH details must be an object"
    ELSE IF ~d.host THEN "SSH host is required"
    ELSE IF ~d.user THEN "SSH user is required"
    ELSE IF d.password /\ d.privateKey
       THEN "password and privateKey/key_path cannot be provided at the same time"
    ELSE "none"
parseSSHDetails(d) ==
    IF ~d.isObject THEN "SSH details must be an object"
    ELSE IF ~d.host THEN "SSH host is required"
    ELSE IF ~d.user THEN "SSH user is required"
    ELSE IF d.password /\ (d.privateKey \/ d.key_path)
       THEN "password and privateKey/key_path cannot be provided at the same time"
    ELSE "none"

\* parseGitDetails (types.go 158-199).
parseGitDetails(d) ==
    IF ~d.isObject THEN "Git details must be an object"
    ELSE IF ~d.url THEN "Git URL is required"
    ELSE IF (d.user \/ d.password) /\ d.privateKey
       THEN "username/password and privateKey cannot be provided at the same time"
    ELSE "none"

\* parseHTTPDetails (types.go 202-214).
parseHTTPDetails(d) ==
    IF ~d.isObject THEN "HTTP details must be an object"
    ELSE IF ~d.url THEN "HTTP URL is required"
    ELSE "none"

\* parseS3Details (types.go 217-261).
parseS3Details(d) ==
    IF ~d.isObject THEN "S3 details must be an object"
    ELSE IF ~d.endpointUrl THEN "S3 endpoint URL is required"
    ELSE IF ~d.bucketName THEN "S3 bucket name is required"
    ELSE IF ~d.path THEN "S3 path is required"
    ELSE IF ~d.accessKey THEN "S3 access key is required"
    ELSE IF ~d.secretKey THEN "S3 secret key is required"
    ELSE IF ~d.region THEN "S3 region is required"
    ELSE "none"

\* CreateSyncer's switch on source.Type with the parser each case calls
\* (types.go 39-103): the error of the parsing, "none" if it passed.
ParseError(src) ==
    CASE src.type = "ssh" -> parseSSHDetails(src.details)
      [] src.type = "git" -> parseGitDetails(src.details)
      [] src.type = "http" -> parseHTTPDetails(src.details)
      [] src.type = "s3" -> parseS3Details(src.details)
      [] OTHER -> "unsupported source type"

\* A request body: whether it is JSON of the right shape, what
\* source.type, source.details and target.path hold, and its top-level
\* field "timeout" ("": the body has none).
Body(j, t, hd, d, pa) ==
    [json |-> j, type |-> t, hasDetails |-> hd, details |-> d, path |-> pa,
     timeout |-> ""]

\* The models.SyncRequest c.ShouldBindJSON fills from a body: SyncRequest
\* has the fields Source and Target and no other (requests.go 6-9), and
\* the decoder drops the fields of the body the struct does not have.
SyncRequest(b) ==
    [source |-> [type |-> b.type, details |-> b.details], target |-> [path |-> b.path]]

\* cfg.Sync.DefaultTimeout, the SYNC_TIMEOUT of the environment or five
\* minutes, with which NewSyncService builds its one SyncerFactory.
DefaultTimeout == "5m0s"

\* The timeout of the syncer CreateSyncer builds for a request: every
\* constructor is given f.timeout (types.go 67, 79, 90, 102).
CreateSyncerTimeout(req) == DefaultTimeout
SyncerTimeout(b) == CreateSyncerTimeout(SyncRequest(b))

\* c.ShouldBindJSON(&request) with the binding:"required" tags of
\* SyncRequest, Source and Target (requests.go 6-20).
BindFails(b) == ~b.json \/ b.type = "" \/ ~b.hasDetails \/ ~b.path

\* SyncService.validateRequest (sync_service.go 107-142).
validateRequest(b) ==
    IF b.type = "" THEN "source type is required"
    ELSE IF ~b.hasDetails THEN "source details are required"
    ELSE IF ~b.path THEN "target path is required"
    ELSE IF b.type \notin {"ssh", "git", "http", "s3"} THEN "unsupported source type"
    ELSE "none"

\* What a body is, as far as the admission path can tell.
ReqKindOf(b) ==
    IF ~b.json THEN "malformed"
    ELSE IF BindFails(b) THEN "missing_field"
    ELSE IF validateRequest(b) # "none" THEN "invalid"
    ELSE IF ParseError([type |-> b.type, details |-> b.details]) # "none" THEN "unbuildable"
    ELSE "good"

\* The bodies requests carry.
GitURLOnly == [EmptyObject EXCEPT !.url = TRUE]
S3Complete ==
    [EmptyObject EXCEPT !.endpointUrl = TRUE, !.bucketName = TRUE, !.path = TRUE,
                        !.accessKey = TRUE, !.secretKey = TRUE, !.region = TRUE]
RequestBodies ==
    {Body(FALSE, "", FALSE, NoDetails, FALSE),
     Body(TRUE, "git", TRUE, GitURLOnly, FALSE),
     Body(TRUE, "ftp", TRUE, EmptyObject, TRUE),
     Body(TRUE, "git", TRUE, EmptyObject, TRUE),
     Body(TRUE, "git", TRUE, [GitURLOnly EXCEPT !.user = TRUE], TRUE),
     Body(TRUE, "git", TRUE, GitURLOnly, TRUE),
     [Body(TRUE, "git", TRUE, GitURLOnly, TRUE) EXCEPT !.timeout = "30s"],
     Body(TRUE, "s3", TRUE, S3Complete, TRUE)}

\* The GitCloneDetails parseGitDetails builds from details d.
GitDetailsOf(d) ==
    [user |-> d.user, password |-> d.password, privateKey |-> d.privateKey, branch |-> ""]

\* GitSyncer.validate (git_syncer.go 428-456), URL present.
validate(d) ==
    IF d.privateKey /\ (d.user /\ d.password)
       THEN "cannot provide both private key and username/password authentication"
    ELSE IF d.user /\ ~d.password
       THEN "password is required when username is provided"
    ELSE IF d.password /\ ~d.user
       THEN "username is required when password is provided"
    ELSE "none"


\* =========================================================================
\* Part 1: SyncHandler.Sync and SyncService
\* =========================================================================

\* Goroutine ids for the mutex: the handler of request p and its background task.
HandlerOf(p) == <<"handler", p>>
TaskOf(p) == <<"task", p>>

\* sync.Mutex.Lock can proceed only when nobody holds the mutex.
MutexLockNoExclusion(m) == TRUE
MutexLock(m) == m = {}

\* A new POST /api/1.0/sync arrives with some body.
Receive(p) ==
    /\ hpc[p] = "idle"
    /\ \E b \in RequestBodies :
          /\ body' = [body EXCEPT ![p] = b]
          /\ reqKind' = [reqKind EXCEPT ![p] = ReqKindOf(b)]
    /\ hpc' = [hpc EXCEPT ![p] = "h_check"]
    /\ UNCHANGED <<syncInProgress, mutex, ssErr, resp, task, syncOutcome, syncerTimeout>>
    /\ UNCHANGED notServiceVars

\* SyncHandler.Sync: if h.syncService.IsSyncInProgress() { 503 busy; return }
\* IsSyncInProgress locks, reads and unlocks.
HandlerCheck(p) ==
    /\ hpc[p] = "h_check"
    /\ MutexLock(mutex)
    /\ IF syncInProgress
          THEN /\ resp' = [resp EXCEPT ![p] = [code |-> StatusServiceUnavailable,
                                               error |-> "syncing in progress already",
                                               details |-> "none"]]
               /\ hpc' = [hpc EXCEPT ![p] = "done"]
          ELSE /\ hpc' = [hpc EXCEPT ![p] = "h_bind"]
               /\ UNCHANGED resp
    /\ UNCHANGED <<syncInProgress, mutex, reqKind, body, ssErr, task, syncOutcome, syncerTimeout>>
    /\ UNCHANGED notServiceVars

\* SyncHandler.Sync: c.ShouldBindJSON(&request); on error 400.
HandlerBind(p) ==
    /\ hpc[p] = "h_bind"
    /\ IF BindFails(body[p])
          THEN /\ resp' = [resp EXCEPT ![p] = [code |-> StatusBadRequest,
                                               error |-> ErrBind,
                                               details |-> "bind error"]]
               /\ hpc' = [hpc EXCEPT ![p] = "done"]
          ELSE /\ hpc' = [hpc EXCEPT ![p] = "ss_lock"]
               /\ UNCHANGED resp
    /\ UNCHANGED <<syncInProgress, mutex, reqKind, body, ssErr, task, syncOutcome, syncerTimeout>>
    /\ UNCHANGED notServiceVars

\* StartSync: s.mutex.Lock(); defer s.mutex.Unlock()
StartSyncLock(p) ==
    /\ hpc[p] = "ss_lock"
    /\ MutexLock(mutex)
    /\ mutex' = mutex \cup {HandlerOf(p)}
    /\ hpc' = [hpc EXCEPT ![p] = "ss_check"]
    /\ UNCHANGED <<syncInProgress, reqKind, body, ssErr, resp, task, syncOutcome, syncerTimeout>>
    /\ UNCHANGED notServiceVars

\* A StartSync whose busy return also stores false into the flag.
StartSyncCheckResetting(p) ==
    /\ hpc[p] = "ss_check"
    /\ IF syncInProgress
          THEN /\ ssErr' = [ssErr EXCEPT ![p] = ErrBusy]
               /\ mutex' = mutex \ {HandlerOf(p)}
               /\ hpc' = [hpc EXCEPT ![p] = "h_respond"]
               /\ syncInProgress' = FALSE
          ELSE /\ hpc' = [hpc EXCEPT ![p] = "ss_validate"]
               /\ UNCHANGED <<ssErr, mutex, syncInProgress>>
    /\ UNCHANGED <<reqKind, body, resp, task, syncOutcome, syncerTimeout>>
    /\ UNCHANGED notServiceVars

\* StartSync: if s.syncInProgress { return NewValidationError(...) }
StartSyncCheck(p) ==
    /\ hpc[p] = "ss_check"
    /\ IF syncInProgress
          THEN /\ ssErr' = [ssErr EXCEPT ![p] = ErrBusy]
               /\ mutex' = mutex \ {HandlerOf(p)}
               /\ hpc' = [hpc EXCEPT ![p] = "h_respond"]
          ELSE /\ hpc' = [hpc EXCEPT ![p] = "ss_validate"]
               /\ UNCHANGED <<ssErr, mutex>>
    /\ UNCHANGED <<syncInProgress, reqKind, body, resp, task, syncOutcome, syncerTimeout>>
    /\ UNCHANGED notServiceVars

\* A validateRequest that lets every request through.
StartSyncValidateSkipping(p) ==
    /\ hpc[p] = "ss_validate"
    /\ hpc' = [hpc EXCEPT ![p] = "ss_create"]
    /\ UNCHANGED <<ssErr, mutex>>
    /\ UNCHANGED <<syncInProgress, reqKind, body, resp, task, syncOutcome, syncerTimeout>>
    /\ UNCHANGED notServiceVars

\* StartSync: if err := s.validateRequest(req); err != nil { return err }
StartSyncValidate(p) ==
    /\ hpc[p] = "ss_validate"
    /\ IF validateRequest(body[p]) # "none"
          THEN /\ ssErr' = [ssErr EXCEPT ![p] = ErrValidation]
               /\ mutex' = mutex \ {HandlerOf(p)}
               /\ hpc' = [hpc EXCEPT ![p] = "h_respond"]
          ELSE /\ hpc' = [hpc EXCEPT ![p] = "ss_create"]
               /\ UNCHANGED <<ssErr, mutex>>
    /\ UNCHANGED <<syncInProgress, reqKind, body, resp, task, syncOutcome, syncerTimeout>>
    /\ UNCHANGED notServiceVars

\* A StartSync that marks the sync as in progress before it builds the
\* syncer and returns the construction error with the mark left set.
StartSyncCreateMarking(p) ==
    /\ hpc[p] = "ss_create"
    /\ IF ParseError([type |-> body[p].type, details |-> body[p].details]) # "none"
          THEN /\ ssErr' = [ssErr EXCEPT ![p] = ErrCreateSyncer]
               /\ UNCHANGED syncerTimeout
               /\ mutex' = mutex \ {HandlerOf(p)}
               /\ hpc' = [hpc EXCEPT ![p] = "h_respond"]
               /\ syncInProgress' = TRUE
          ELSE \/ /\ hpc' = [hpc EXCEPT ![p] = "ss_launch"]
                  /\ syncerTimeout' = [syncerTimeout EXCEPT ![p] = SyncerTimeout(body[p])]
                  /\ UNCHANGED <<ssErr, mutex, syncInProgress>>
               \/ /\ body[p].type = "s3"
                  /\ UNCHANGED syncerTimeout
                  /\ ssErr' = [ssErr EXCEPT ![p] = ErrS3Connection]
                  /\ mutex' = mutex \ {HandlerOf(p)}
                  /\ hpc' = [hpc EXCEPT ![p] = "h_respond"]
                  /\ syncInProgress' = TRUE
    /\ UNCHANGED <<reqKind, body, resp, task, syncOutcome>>
    /\ UNCHANGED notServiceVars

\* StartSync: syncer, err := s.factory.CreateSyncer(...); on error return
\* "failed to create syncer: %w". The error is that of the details'
\* parsing or, for an s3 source, that of NewS3Syncer's connection test,
\* which runs inside CreateSyncer.
StartSyncCreate(p) ==
    /\ hpc[p] = "ss_create"
    /\ IF ParseError([type |-> body[p].type, details |-> body[p].details]) # "none"
          THEN /\ ssErr' = [ssErr EXCEPT ![p] = ErrCreateSyncer]
               /\ UNCHANGED syncerTimeout
               /\ mutex' = mutex \ {HandlerOf(p)}
               /\ hpc' = [hpc EXCEPT ![p] = "h_respond"]
          ELSE \/ /\ hpc' = [hpc EXCEPT ![p] = "ss_launch"]
                  /\ syncerTimeout' = [syncerTimeout EXCEPT ![p] = SyncerTimeout(body[p])]
                  /\ UNCHANGED <<ssErr, mutex>>
               \/ /\ body[p].type = "s3"
                  /\ UNCHANGED syncerTimeout
                  /\ ssErr' = [ssErr EXCEPT ![p] = ErrS3Connection]
                  /\ mutex' = mutex \ {HandlerOf(p)}
                  /\ hpc' = [hpc EXCEPT ![p] = "h_respond"]
    /\ UNCHANGED <<syncInProgress, reqKind, body, resp, task, syncOutcome>>
    /\ UNCHANGED notServiceVars

\* A StartSync that starts the goroutine and leaves the flag as it is.
StartSyncLaunchUnmarked(p) ==
    /\ hpc[p] = "ss_launch"
    /\ task' = [task EXCEPT ![p] = "spawned"]
    /\ mutex' = mutex \ {HandlerOf(p)}
    /\ hpc' = [hpc EXCEPT ![p] = "h_respond"]
    /\ UNCHANGED <<syncInProgress, reqKind, body, ssErr, resp, syncOutcome, syncerTimeout>>
    /\ UNCHANGED notServiceVars

\* StartSync: s.syncInProgress = true; go func() {...}(); return nil
\* (the deferred Unlock runs at the return).
StartSyncLaunch(p) ==
    /\ hpc[p] = "ss_launch"
    /\ syncInProgress' = TRUE
    /\ task' = [task EXCEPT ![p] = "spawned"]
    /\ mutex' = mutex \ {HandlerOf(p)}
    /\ hpc' = [hpc EXCEPT ![p] = "h_respond"]
    /\ UNCHANGED <<reqKind, body, ssErr, resp, syncOutcome, syncerTimeout>>
    /\ UNCHANGED notServiceVars

\* SyncHandler.Sync after StartSync returned: 400 on error, 201 otherwise.
HandlerRespond(p) ==
    /\ hpc[p] = "h_respond"
    /\ resp' = [resp EXCEPT ![p] =
                  IF ssErr[p] # ErrNone
                     THEN [code |-> StatusBadRequest, error |-> "invalid request",
                           details |-> ssErr[p]]
                     ELSE [code |-> StatusCreated, error |-> "none",
                           details |-> "none"]]
    /\ hpc' = [hpc EXCEPT ![p] = "done"]
    /\ UNCHANGED <<syncInProgress, mutex, reqKind, body, ssErr, task, syncOutcome, syncerTimeout>>
    /\ UNCHANGED notServiceVars

\* The background goroutine is scheduled and calls syncer.Sync().
TaskBegin(p) ==
    /\ task[p] = "spawned"
    /\ task' = [task EXCEPT ![p] = "syncing"]
    /\ UNCHANGED <<syncInProgress, mutex, hpc, reqKind, body, ssErr, resp, syncOutcome, syncerTimeout>>
    /\ UNCHANGED notServiceVars

\* What syncer.Sync() can return for a body: a git job whose details
\* GitSyncer.validate refuses returns that error, any other job succeeds
\* or fails.
SyncOutcomes(b) ==
    IF b.type = "git" /\ validate(GitDetailsOf(b.details)) # "none"
       THEN {"error"} ELSE {"ok", "error"}

\* syncer.Sync() returns, with or without an error.
TaskSyncReturns(p) ==
    /\ task[p] = "syncing"
    /\ \E o \in SyncOutcomes(body[p]) : syncOutcome' = [syncOutcome EXCEPT ![p] = o]
    /\ task' = [task EXCEPT ![p] = "returned"]
    /\ UNCHANGED <<syncInProgress, mutex, hpc, reqKind, body, ssErr, resp, syncerTimeout>>
    /\ UNCHANGED notServiceVars

\* The deferred function: s.mutex.Lock()
TaskDeferLock(p) ==
    /\ task[p] = "returned"
    /\ MutexLock(mutex)
    /\ mutex' = mutex \cup {TaskOf(p)}
    /\ task' = [task EXCEPT ![p] = "resetting"]
    /\ UNCHANGED <<syncInProgress, hpc, reqKind, body, ssErr, resp, syncOutcome, syncerTimeout>>
    /\ UNCHANGED notServiceVars

\* A deferred function that clears the flag and keeps the mutex.
TaskDeferResetKeepingMutex(p) ==
    /\ task[p] = "resetting"
    /\ syncInProgress' = FALSE
    /\ task' = [task EXCEPT ![p] = "done"]
    /\ UNCHANGED <<mutex, hpc, reqKind, body, ssErr, resp, syncOutcome, syncerTimeout>>
    /\ UNCHANGED notServiceVars

\* The deferred function: s.syncInProgress = false; s.mutex.Unlock()
TaskDeferReset(p) ==
    /\ task[p] = "resetting"
    /\ syncInProgress' = FALSE
    /\ mutex' = mutex \ {TaskOf(p)}
    /\ task' = [task EXCEPT ![p] = "done"]
    /\ UNCHANGED <<hpc, reqKind, body, ssErr, resp, syncOutcome, syncerTimeout>>
    /\ UNCHANGED notServiceVars

InitService ==
    /\ syncInProgress = FALSE
    /\ mutex = {}
    /\ hpc = [p \in Requests |-> "idle"]
    /\ reqKind = [p \in Requests |-> "good"]
    /\ body = [p \in Requests |-> Body(TRUE, "git", TRUE, GitURLOnly, TRUE)]
    /\ ssErr = [p \in Requests |-> ErrNone]
    /\ resp = [p \in Requests |-> NoResponse]
    /\ task = [p \in Requests |-> "none"]
    /\ syncOutcome = [p \in Requests |-> "none"]
    /\ syncerTimeout = [p \in Requests |-> "none"]


\* Specification of Part 1; GitSyncer's variables stay as constructed.
NextService ==
    \E p \in Requests :
        \/ Receive(p)
        \/ HandlerCheck(p)
        \/ HandlerBind(p)
        \/ StartSyncLock(p)
        \/ StartSyncCheck(p)
        \/ StartSyncValidate(p)
        \/ StartSyncCreate(p)
        \/ StartSyncLaunch(p)
        \/ HandlerRespond(p)
        \/ TaskBegin(p)
        \/ TaskSyncReturns(p)
        \/ TaskDeferLock(p)
        \/ TaskDeferReset(p)

\* =========================================================================
\* Part 2: GitSyncer.Sync and GitSyncer.safeCloneWithReplace
\* =========================================================================

\* A directory tree: whether the path exists, its entries (recursive listing
\* without .git), and the origin URL of its .git directory ("none": no .git).
OldFiles == {"old1", "old2"}
NewFiles == {"new1", "new2"}

\* Repository URLs. The job asks for RequestedURL; a repository found at the
\* target has one of these as its remote.origin.url.
RequestedURL == "https://host/org/repo.git"
RequestedURLBare == "https://host/org/repo"
RequestedURLSlash == "https://host/org/repo.git/"
AuthenticatedURL == "https://user:pw@host/org/repo.git"
ScpStyleURL == "git@host:org/repo.git"
OtherURL == "https://host/org/other.git"
OriginURLs == {RequestedURL, RequestedURLBare, RequestedURLSlash, AuthenticatedURL,
               ScpStyleURL, OtherURL}

\* The text of a URL, in the parts urlsMatch looks at: what url.Parse makes
\* of it (parses: FALSE for the scp form, whose first path segment holds a
\* colon), and the ".git" and "/" it may end with.
URLText(u) ==
    CASE u = RequestedURL ->
           [parses |-> TRUE, userinfo |-> "", host |-> "host", path |-> "/org/repo",
            dotGit |-> TRUE, slash |-> FALSE]
      [] u = RequestedURLBare ->
           [parses |-> TRUE, userinfo |-> "", host |-> "host", path |-> "/org/repo",
            dotGit |-> FALSE, slash |-> FALSE]
      [] u = RequestedURLSlash ->
           [parses |-> TRUE, userinfo |-> "", host |-> "host", path |-> "/org/repo",
            dotGit |-> TRUE, slash |-> TRUE]
      [] u = AuthenticatedURL ->
           [parses |-> TRUE, userinfo |-> "user:pw", host |-> "host", path |-> "/org/repo",
            dotGit |-> TRUE, slash |-> FALSE]
      [] u = ScpStyleURL ->
           [parses |-> FALSE, userinfo |-> "git", host |-> "host", path |-> "org/repo",
            dotGit |-> TRUE, slash |-> FALSE]
      [] u = OtherURL ->
           [parses |-> TRUE, userinfo |-> "", host |-> "host", path |-> "/org/other",
            dotGit |-> TRUE, slash |-> FALSE]

\* strings.TrimSuffix(strings.TrimSuffix(url, "/"), ".git")
CleanURL(u) == [URLText(u) EXCEPT !.slash = FALSE, !.dotGit = FALSE]

Absent == [exists |-> FALSE, entries |-> {}, origin |-> "none"]
EmptyDir == [exists |-> TRUE, entries |-> {}, origin |-> "none"]
Tree(files, url) == [exists |-> TRUE, entries |-> files, origin |-> url]

\* prepareAuthenticatedURL (git_syncer.go 459-488): with user and password
\* the requested URL with both put in front of its host (url.UserPassword),
\* otherwise the requested URL as it is.
prepareAuthenticatedURL(d) ==
    IF d.user /\ d.password THEN AuthenticatedURL ELSE RequestedURL

\* What `git clone <repoURL> <dir>` leaves in <dir> when it succeeds; the
\* URL git was given, credentials included, is the remote.origin.url.
ClonedTree == Tree(NewFiles, prepareAuthenticatedURL(details))

\* What a failed or killed `git clone` may leave in the directory it was
\* cloning into: git removes what it created (the directory stays, empty,
\* because it existed before), or, when killed at the deadline, a part of it.
FailedCloneTrees ==
    {EmptyDir} \cup {Tree(f, prepareAuthenticatedURL(details)) : f \in SUBSET NewFiles}

\* The states of the target directory a job may find.
TargetStates ==
    {Absent, EmptyDir}
      \cup {Tree(f, u) : f \in (SUBSET OldFiles) \ {{}}, u \in {"none"} \cup OriginURLs}

\* The remote repository: its branches and the one its HEAD names.
Remotes ==
    {[branches |-> {"main"}, default |-> "main"],
     [branches |-> {"master"}, default |-> "master"],
     [branches |-> {"master", "develop"}, default |-> "develop"]}

\* GitCloneDetails.Branch as requested ("": none requested).
RequestedBranches == {"", "main", "master"}

\* Errors returned by GitSyncer.Sync: the message of the outermost
\* fmt.Errorf, the paths its text names, and the wrapped cause (%w).
GitOK == [status |-> "ok", msg |-> "none", paths |-> {}, cause |-> "none"]
GitErr(m, ps, c) == [status |-> "error", msg |-> m, paths |-> ps, cause |-> c]
NoResult == [status |-> "none", msg |-> "none", paths |-> {}, cause |-> "none"]

\* GitCloneDetails as the factory lets them through (types.go 158-199):
\* a URL is present; user or password never comes with a private key.
DetailsStates ==
    {d \in [user : BOOLEAN, password : BOOLEAN, privateKey : BOOLEAN,
            branch : RequestedBranches] :
        ~((d.user \/ d.password) /\ d.privateKey)}


\* cloneRepo's errors once git runs (git_syncer.go 369-376); the second
\* set is `git clone --branch b` against a remote that has no branch b.
GitCloneRunErrors == {"git clone failed", "git clone timed out"}
GitCloneNoBranch == "git clone failed: remote branch not found"

\* cloneRepo's errors before git runs: setupSSHKey (base64 decoding, key
\* file creation) when a private key is given, prepareAuthenticatedURL
\* (url.Parse) when user and password are given (git_syncer.go 312-323).
GitCloneSetupErrors(d) ==
    (IF d.privateKey
        THEN {"failed to decode base64 private key", "failed to create temporary key file"}
        ELSE {})
    \cup (IF d.user /\ d.password THEN {"failed to parse Git URL"} ELSE {})

CloneErrors ==
    GitCloneRunErrors \cup {GitCloneNoBranch}
      \cup UNION {GitCloneSetupErrors(d) : d \in DetailsStates}

\* `git clone [--branch b]` can succeed only if the remote has branch b.
CloneableBranch(b, r) == b = "" \/ b \in r.branches

\* The branch a successful clone checks out.
ClonedHead(b, r) == IF b = "" THEN r.default ELSE b

\* The ways the git command of cloneRepo can fail on a job asking for
\* branch b of remote r: the error and the tree it leaves.
cloneRunFailures(b, r) ==
    {[err |-> e, tree |-> t] : e \in GitCloneRunErrors, t \in FailedCloneTrees}
    \cup (IF CloneableBranch(b, r) THEN {}
          ELSE {[err |-> GitCloneNoBranch, tree |-> EmptyDir]})

\* os.Rename(from, to) on a file system state f: the tree moves, whole.
Rename(f, from, to) == [f EXCEPT ![to] = f[from], ![from] = Absent]

\* os.RemoveAll(path).
RemoveAll(f, path) == [f EXCEPT ![path] = Absent]

\* What a failing os.RemoveAll(path) may leave: the tree, or a part of it.
RemoveAllFailed(f, path) ==
    {[f EXCEPT ![path] = Tree(e, f[path].origin)] : e \in SUBSET f[path].entries}

\* ---- the clock, the operations and the log of a job

\* How long an operation can run when it ends by itself before a deadline
\* that lies Timeout ticks after its start.
InTime == 0 .. (Timeout - 1)

\* The job's clock d ticks from now; it is not counted beyond Timeout.
After(d) == IF elapsed + d >= Timeout THEN Timeout ELSE elapsed + d

\* A command run as exec.CommandContext(ctx, ...) under a context made for
\* it by context.WithTimeout(context.Background(), g.timeout): it ends by
\* itself within the timeout, with exit status zero or not, or it is
\* killed when its own deadline comes (ctx.Err() == DeadlineExceeded).
CommandRuns ==
    {[d |-> d, out |-> o] : d \in InTime, o \in {"ok", "failed"}}
      \cup {[d |-> Timeout, out |-> "timed out"]}

\* The operation cmd is started now and ends as r says. An operation is
\* late when the timeout had already elapsed since Sync() began.
Run(cmd, r) ==
    /\ ops' = Append(ops, [cmd |-> cmd, late |-> elapsed >= Timeout, out |-> r.out])
    /\ elapsed' = After(r.d)

\* The secrets of a job, as they occur in the texts it handles.
Password == "<password>"
KeyMaterial == "<private key>"

\* A log line: the log.Printf that wrote it and the text of its arguments,
\* a sequence of words, each word a sequence of parts.
Line(at, text) == [at |-> at, text |-> text]
Log(lines) == logged' = logged \cup lines

\* A URL as the parts the masking expression looks at.
URLParts(u) ==
    IF u = AuthenticatedURL
       THEN <<"https://", "user", ":", Password, "@", "host/org/repo.git">>
       ELSE IF u = ScpStyleURL
       THEN <<"git", "@", "host:org/repo.git">>
       ELSE <<"https://", URLText(u).host, URLText(u).path>>

\* maskCredentials (git_syncer.go 28-39): every match of
\* (https?://)([^:]+):([^@]+)(@[^/\s]+) keeps its scheme, user and host and
\* has "***" for its password. Its second expression, for the word
\* "password" followed by a value, finds nothing in a git command.
RECURSIVE maskCredentials(_)
maskCredentials(text) ==
    IF text = <<>> THEN <<>>
    ELSE IF /\ Len(text) >= 6
            /\ text[1] = "https://"
            /\ text[3] = ":"
            /\ text[5] = "@"
       THEN <<text[1], text[2], ":", "***", "@", text[6]>>
              \o maskCredentials(SubSeq(text, 7, Len(text)))
       ELSE <<Head(text)>> \o maskCredentials(Tail(text))

\* maskGitCommand (git_syncer.go 42-48): each argument is masked.
maskGitCommand(args) == [i \in DOMAIN args |-> maskCredentials(args[i])]

\* The error of a command that did not succeed: runGitInTarget returns
\* "git command timed out after %v" at the deadline and the error of
\* cmd.Run() otherwise.
RunError(r) == IF r.out = "timed out" THEN "git command timed out" ELSE "exit status"

\* runGitInTarget (git_syncer.go 400-425): the masked arguments are
\* logged, the command runs under a context of its own, and when it
\* succeeds the arguments are logged again, as they are.
runGitInTarget(cmd, args, r) ==
    /\ Run(cmd, r)
    /\ Log({Line("git_syncer.go:403", maskGitCommand(args))}
             \cup (IF r.out = "ok" THEN {Line("git_syncer.go:423", args)} ELSE {}))

\* ---- setupSSHKey and the cleanup it returns (git_syncer.go 491-528)

\* The names os.CreateTemp("", "git_ssh_key_*") gives the key file of
\* syncExistingRepo and the key file of cloneRepo.
KeyOfExisting == "git_ssh_key_existing"
KeyOfClone == "git_ssh_key_clone"

\* setupSSHKey succeeded: with a private key the file exists and
\* GIT_SSH_COMMAND names it; without one nothing happens.
SetupKeyFiles(d, kf, name) == IF d.privateKey THEN kf \cup {name} ELSE kf
SetupSSHCommand(d, cmd, name) == IF d.privateKey THEN name ELSE cmd

\* The cleanup closure: os.Remove(tmpKeyFile); os.Unsetenv("GIT_SSH_COMMAND").
CleanupKeyFilesKeeping(d, kf, name) == kf
CleanupKeyFiles(d, kf, name) == IF d.privateKey THEN kf \ {name} ELSE kf
CleanupSSHCommandKeeping(d, cmd) == cmd
CleanupSSHCommand(d, cmd) == IF d.privateKey THEN "unset" ELSE cmd

\* ---- GitSyncer.Sync (git_syncer.go 60-119)

\* Sync: if err := g.validate(); err != nil { return err }
GitValidate ==
    /\ gpc = "validate"
    /\ IF validate(details) # "none"
          THEN /\ gitResult' = GitErr(validate(details), {}, "none")
               /\ gpc' = "done"
          ELSE /\ gpc' = "ensure_dir"
               /\ UNCHANGED gitResult
    /\ UNCHANGED <<fs, renames, stagingMade, branch, head>>
    /\ UNCHANGED <<gitJob, gitKeys, runVars>>
    /\ UNCHANGED notGitVars

\* Sync: utils.EnsureDir(g.targetDir) = os.MkdirAll(dir, 0755).
GitEnsureDir ==
    /\ gpc = "ensure_dir"
    /\ \/ /\ fs' = [fs EXCEPT !["target"] = IF fs["target"].exists THEN @ ELSE EmptyDir]
          /\ gpc' = "dispatch"
          /\ UNCHANGED gitResult
       \/ /\ gitResult' = GitErr("failed to create target directory", {}, "mkdir")
          /\ gpc' = "done"
          /\ UNCHANGED fs
    /\ UNCHANGED <<renames, stagingMade, branch, head>>
    /\ UNCHANGED <<gitJob, gitKeys, runVars>>
    /\ UNCHANGED notGitVars

\* Sync: os.Stat(targetDir), os.Stat(gitDir), os.ReadDir(targetDir).
GitDispatch ==
    /\ gpc = "dispatch"
    /\ IF fs["target"].origin # "none"
          THEN /\ gpc' = "existing_repo"
               /\ UNCHANGED gitResult
          ELSE \/ /\ gpc' = IF fs["target"].entries # {} THEN "sr_mkdtemp" ELSE "fresh_clone"
                  /\ UNCHANGED gitResult
               \/ /\ gitResult' = GitErr("failed to read target directory", {"target"}, "readdir")
                  /\ gpc' = "done"
    /\ UNCHANGED <<fs, renames, stagingMade, branch, head>>
    /\ UNCHANGED <<gitJob, gitKeys, runVars>>
    /\ UNCHANGED notGitVars

\* ---- GitSyncer.cloneRepo (git_syncer.go 309-397)

\* cloneRepo into the target, up to the git command (git_syncer.go
\* 309-323): setupSSHKey, defer cleanup(), prepareAuthenticatedURL.
GitFreshCloneSetup ==
    /\ gpc = "fresh_clone"
    /\ \/ /\ keyFiles' = SetupKeyFiles(details, keyFiles, KeyOfClone)
          /\ sshCommand' = SetupSSHCommand(details, sshCommand, KeyOfClone)
          /\ gpc' = "fresh_clone_run"
          /\ UNCHANGED gitResult
       \/ \E e \in GitCloneSetupErrors(details) :
             /\ gitResult' = GitErr(e, {}, "none")
             /\ gpc' = "done"
             /\ UNCHANGED gitKeys
    /\ UNCHANGED <<fs, renames, stagingMade, branch, head>>
    /\ UNCHANGED <<gitJob, runVars>>
    /\ UNCHANGED notGitVars

\* What cloneRepo logs of its command (git_syncer.go 343-359): a
\* placeholder for the URL when the job carries a key or a user and a
\* password, the masked command otherwise.
CloneCommandLine(d) ==
    Line("git_syncer.go:343",
         IF d.privateKey THEN <<<<"clone">>, <<"[SSH_URL]">>>>
         ELSE IF d.user /\ d.password THEN <<<<"clone">>, <<"[URL_WITH_CREDENTIALS]">>>>
         ELSE maskGitCommand(<<<<"clone">>, URLParts(RequestedURL)>>))

\* The ways the git command of cloneRepo can end other than well, given
\* how the run r ended: "git clone timed out after %v" at the deadline,
\* "git clone failed: %w" otherwise.
cloneRunFailuresOf(r, b, rem) ==
    {f \in cloneRunFailures(b, rem) : (f.err = "git clone timed out") = (r.out = "timed out")}

\* Sync: return g.cloneRepo(branch), cloning straight into the target: the
\* git command runs under a context of its own; when it fails the
\* deferred cleanup runs as cloneRepo returns, and so it does when it
\* succeeds on a named branch.
GitFreshClone ==
    /\ gpc = "fresh_clone_run"
    /\ \E r \in CommandRuns :
          /\ Run("git clone", r)
          /\ Log({CloneCommandLine(details)})
          /\ \/ /\ r.out = "ok"
                /\ CloneableBranch(branch, remote)
                /\ fs' = [fs EXCEPT !["target"] = ClonedTree]
                /\ head' = ClonedHead(branch, remote)
                /\ IF branch = ""
                      THEN /\ gpc' = "fresh_clone_show"
                           /\ UNCHANGED <<gitResult, gitKeys>>
                      ELSE /\ gitResult' = GitOK
                           /\ keyFiles' = CleanupKeyFiles(details, keyFiles, KeyOfClone)
                           /\ sshCommand' = CleanupSSHCommand(details, sshCommand)
                           /\ gpc' = "done"
             \/ /\ r.out # "ok"
                /\ \E f \in cloneRunFailuresOf(r, branch, remote) :
                      /\ fs' = [fs EXCEPT !["target"] = f.tree]
                      /\ gitResult' = GitErr(f.err, {}, "none")
                /\ keyFiles' = CleanupKeyFiles(details, keyFiles, KeyOfClone)
                /\ sshCommand' = CleanupSSHCommand(details, sshCommand)
                /\ gpc' = "done"
                /\ UNCHANGED head
    /\ UNCHANGED <<renames, stagingMade, branch>>
    /\ UNCHANGED gitJob
    /\ UNCHANGED notGitVars

\* cloneRepo after a clone with no branch named (git_syncer.go 378-396):
\* `git branch --show-current` under a context of its own; whatever
\* becomes of it is logged only, and cloneRepo returns nil, its deferred
\* cleanup running.
GitFreshCloneShow ==
    /\ gpc = "fresh_clone_show"
    /\ \E r \in CommandRuns : Run("git branch", r)
    /\ gitResult' = GitOK
    /\ keyFiles' = CleanupKeyFiles(details, keyFiles, KeyOfClone)
    /\ sshCommand' = CleanupSSHCommand(details, sshCommand)
    /\ gpc' = "done"
    /\ UNCHANGED <<fs, renames, stagingMade, branch, head, logged>>
    /\ UNCHANGED gitJob
    /\ UNCHANGED notGitVars

\* ---- GitSyncer.syncExistingRepo (git_syncer.go 195-306)

\* urlsMatch (git_syncer.go 555-572): both URLs lose a trailing "/" and
\* then a trailing ".git"; if both parse, host and path are compared,
\* otherwise the trimmed texts.
urlsMatchExact(url1, url2) == url1 = url2
urlsMatch(url1, url2) ==
    IF CleanURL(url1).parses /\ CleanURL(url2).parses
       THEN /\ CleanURL(url1).host = CleanURL(url2).host
            /\ CleanURL(url1).path = CleanURL(url2).path
       ELSE CleanURL(url1) = CleanURL(url2)

\* syncExistingRepo: setupSSHKey, defer cleanup(), prepareAuthenticatedURL.
GitExistingSetup ==
    /\ gpc = "existing_repo"
    /\ \/ /\ keyFiles' = SetupKeyFiles(details, keyFiles, KeyOfExisting)
          /\ sshCommand' = SetupSSHCommand(details, sshCommand, KeyOfExisting)
          /\ gpc' = "existing_config"
          /\ UNCHANGED gitResult
       \/ \E e \in GitCloneSetupErrors(details) :
             /\ gitResult' = GitErr(e, {}, "none")
             /\ gpc' = "done"
             /\ UNCHANGED gitKeys
    /\ UNCHANGED <<fs, renames, stagingMade, branch, head>>
    /\ UNCHANGED <<gitJob, runVars>>
    /\ UNCHANGED notGitVars

\* syncExistingRepo: `git config --get remote.origin.url` under a context
\* of its own; the URL it prints is logged masked, and urlsMatch chooses
\* between the in-place update and safeCloneWithReplace.
GitExistingRepo ==
    /\ gpc = "existing_config"
    /\ \E r \in CommandRuns :
          /\ Run("git config", r)
          /\ \/ /\ r.out = "ok"
                /\ Log({Line("git_syncer.go:227",
                             <<maskCredentials(URLParts(fs["target"].origin))>>)})
                /\ gpc' = IF urlsMatch(fs["target"].origin, RequestedURL)
                             THEN "in_place" ELSE "sr_mkdtemp"
                /\ UNCHANGED gitResult
             \/ /\ r.out # "ok"
                /\ gitResult' = GitErr(IF r.out = "timed out"
                                          THEN "git config command timed out"
                                          ELSE "failed to get remote URL", {}, "none")
                /\ gpc' = "existing_deferred"
                /\ UNCHANGED logged
    /\ UNCHANGED <<fs, renames, stagingMade, branch, head>>
    /\ UNCHANGED <<gitJob, gitKeys>>
    /\ UNCHANGED notGitVars

\* As GitSetURL, with the stored URL left as it was.
GitSetURLKeepingOrigin ==
    /\ gpc = "in_place"
    /\ IF details.user /\ details.password
          THEN \E r \in CommandRuns :
                  /\ runGitInTarget("git remote set-url",
                                    <<<<"remote">>, <<"set-url">>, <<"origin">>,
                                      URLParts(prepareAuthenticatedURL(details))>>, r)
                  /\ IF r.out = "ok"
                        THEN /\ UNCHANGED fs
                             /\ gpc' = "ip_fetch"
                             /\ UNCHANGED gitResult
                        ELSE /\ gitResult' = GitErr("failed to update remote URL", {},
                                                    RunError(r))
                             /\ gpc' = "existing_deferred"
                             /\ UNCHANGED fs
          ELSE /\ gpc' = "ip_fetch"
               /\ UNCHANGED <<fs, gitResult, runVars>>
    /\ UNCHANGED <<renames, stagingMade, branch, head>>
    /\ UNCHANGED <<gitJob, gitKeys>>
    /\ UNCHANGED notGitVars

\* syncExistingRepo: with user and password, `git remote set-url origin
\* <URL with credentials>`.
GitSetURL ==
    /\ gpc = "in_place"
    /\ IF details.user /\ details.password
          THEN \E r \in CommandRuns :
                  /\ runGitInTarget("git remote set-url",
                                    <<<<"remote">>, <<"set-url">>, <<"origin">>,
                                      URLParts(prepareAuthenticatedURL(details))>>, r)
                  /\ IF r.out = "ok"
                        THEN /\ fs' = [fs EXCEPT !["target"].origin = prepareAuthenticatedURL(details)]
                             /\ gpc' = "ip_fetch"
                             /\ UNCHANGED gitResult
                        ELSE /\ gitResult' = GitErr("failed to update remote URL", {},
                                                    RunError(r))
                             /\ gpc' = "existing_deferred"
                             /\ UNCHANGED fs
          ELSE /\ gpc' = "ip_fetch"
               /\ UNCHANGED <<fs, gitResult, runVars>>
    /\ UNCHANGED <<renames, stagingMade, branch, head>>
    /\ UNCHANGED <<gitJob, gitKeys>>
    /\ UNCHANGED notGitVars

\* syncExistingRepo: `git fetch --all`; then, with no branch requested,
\* getDefaultBranch is next.
GitFetchIgnoringFailure ==
    /\ gpc = "ip_fetch"
    /\ \E r \in CommandRuns :
          /\ runGitInTarget("git fetch", <<<<"fetch">>, <<"--all">>>>, r)
          /\ gpc' = IF branch = "" THEN "ip_default" ELSE "ip_checkout"
          /\ IF r.out = "ok"
                THEN UNCHANGED gitResult
                ELSE gitResult' = GitErr("git fetch failed", {}, RunError(r))
    /\ UNCHANGED <<fs, renames, stagingMade, branch, head>>
    /\ UNCHANGED <<gitJob, gitKeys>>
    /\ UNCHANGED notGitVars
GitFetch ==
    /\ gpc = "ip_fetch"
    /\ \E r \in CommandRuns :
          /\ runGitInTarget("git fetch", <<<<"fetch">>, <<"--all">>>>, r)
          /\ IF r.out = "ok"
                THEN /\ gpc' = IF branch = "" THEN "ip_default" ELSE "ip_checkout"
                     /\ UNCHANGED gitResult
                ELSE /\ gitResult' = GitErr("git fetch failed", {}, RunError(r))
                     /\ gpc' = "existing_deferred"
    /\ UNCHANGED <<fs, renames, stagingMade, branch, head>>
    /\ UNCHANGED <<gitJob, gitKeys>>
    /\ UNCHANGED notGitVars

\* The work tree after `git checkout -B b origin/b`: the branch's files
\* are there, untracked files stay.
CheckedOut(t) == [t EXCEPT !.entries = @ \cup NewFiles]

\* The arguments of `git checkout -B b origin/b`.
CheckoutArgs(b) == <<<<"checkout">>, <<"-B">>, <<b>>, <<"origin/", b>>>>

\* getDefaultBranch (git_syncer.go 575-587): `git symbolic-ref
\* refs/remotes/origin/HEAD` under a context of its own names the remote's
\* default branch; a deadline ends getDefaultBranch, another failure
\* leads to `git remote set-head origin --auto`.
GitSymbolicRef ==
    /\ gpc = "ip_default"
    /\ \E r \in CommandRuns :
          /\ Run("git symbolic-ref", r)
          /\ CASE r.out = "ok" ->
                    /\ branch' = remote.default
                    /\ gpc' = "ip_checkout"
                    /\ UNCHANGED gitResult
               [] r.out = "failed" ->
                    /\ gpc' = "ip_set_head"
                    /\ UNCHANGED <<branch, gitResult>>
               [] r.out = "timed out" ->
                    /\ gitResult' = GitErr("failed to get default branch", {},
                                           "git symbolic-ref command timed out")
                    /\ gpc' = "existing_deferred"
                    /\ UNCHANGED branch
    /\ UNCHANGED <<fs, renames, stagingMade, head, logged>>
    /\ UNCHANGED <<gitJob, gitKeys>>
    /\ UNCHANGED notGitVars

\* getDefaultBranch (git_syncer.go 589-601): `git remote set-head origin
\* --auto` through runGitInTarget; any error of it, the deadline included,
\* leads to trying the common branch names.
GitSetHead ==
    /\ gpc = "ip_set_head"
    /\ \E r \in CommandRuns :
          /\ runGitInTarget("git remote set-head",
                            <<<<"remote">>, <<"set-head">>, <<"origin">>, <<"--auto">>>>, r)
          /\ gpc' = IF r.out = "ok" THEN "ip_default_retry" ELSE "ip_try_main"
    /\ UNCHANGED <<fs, gitResult, renames, stagingMade, branch, head>>
    /\ UNCHANGED <<gitJob, gitKeys>>
    /\ UNCHANGED notGitVars

\* getDefaultBranch (git_syncer.go 603-615): the second `git symbolic-ref`,
\* under a context of its own.
GitSymbolicRefRetry ==
    /\ gpc = "ip_default_retry"
    /\ \E r \in CommandRuns :
          /\ Run("git symbolic-ref", r)
          /\ IF r.out = "ok"
                THEN /\ branch' = remote.default
                     /\ gpc' = "ip_checkout"
                     /\ UNCHANGED gitResult
                ELSE /\ gitResult' =
                          GitErr("failed to get default branch", {},
                                 IF r.out = "timed out"
                                    THEN "git symbolic-ref retry command timed out"
                                    ELSE "failed to get default branch")
                     /\ gpc' = "existing_deferred"
                     /\ UNCHANGED branch
    /\ UNCHANGED <<fs, renames, stagingMade, head, logged>>
    /\ UNCHANGED <<gitJob, gitKeys>>
    /\ UNCHANGED notGitVars

\* getDefaultBranch (git_syncer.go 594-600): the loop over main, master,
\* develop; the position names the branch whose turn it is.
TryName(pc) ==
    CASE pc = "ip_try_main" -> "main"
      [] pc = "ip_try_master" -> "master"
      [] pc = "ip_try_develop" -> "develop"
AfterTry(pc) ==
    CASE pc = "ip_try_main" -> "ip_try_master"
      [] pc = "ip_try_master" -> "ip_try_develop"
      [] pc = "ip_try_develop" -> "existing_deferred"

\* One turn of the loop: `git checkout -B name origin/name` through
\* runGitInTarget; the first name that checks out is the default branch,
\* any error moves on to the next name, and after the last name
\* getDefaultBranch returns "unable to determine default branch".
GitTryBranch ==
    /\ gpc \in {"ip_try_main", "ip_try_master", "ip_try_develop"}
    /\ \E r \in CommandRuns :
          /\ runGitInTarget("git checkout (getDefaultBranch)", CheckoutArgs(TryName(gpc)), r)
          /\ IF r.out = "ok"
                THEN /\ TryName(gpc) \in remote.branches
                     /\ branch' = TryName(gpc)
                     /\ head' = TryName(gpc)
                     /\ fs' = [fs EXCEPT !["target"] = CheckedOut(@)]
                     /\ gpc' = "ip_checkout"
                     /\ UNCHANGED gitResult
                ELSE /\ gpc' = AfterTry(gpc)
                     /\ gitResult' = IF gpc = "ip_try_develop"
                                        THEN GitErr("failed to get default branch", {},
                                                    "unable to determine default branch")
                                        ELSE gitResult
                     /\ UNCHANGED <<fs, head, branch>>
    /\ UNCHANGED <<renames, stagingMade>>
    /\ UNCHANGED <<gitJob, gitKeys>>
    /\ UNCHANGED notGitVars

\* syncExistingRepo: `git checkout -B branch origin/branch`; if that fails
\* and branch is "main", branch becomes "master" and the checkout is tried
\* again (git_syncer.go 270-285).
GitCheckout ==
    /\ gpc = "ip_checkout"
    /\ \E r \in CommandRuns :
          /\ runGitInTarget("git checkout", CheckoutArgs(branch), r)
          /\ IF r.out = "ok"
                THEN /\ branch \in remote.branches
                     /\ fs' = [fs EXCEPT !["target"] = CheckedOut(@)]
                     /\ head' = branch
                     /\ gpc' = "ip_reset"
                     /\ UNCHANGED <<branch, gitResult>>
                ELSE IF branch = "main"
                THEN /\ branch' = "master"
                     /\ gpc' = "ip_checkout_master"
                     /\ UNCHANGED <<fs, head, gitResult>>
                ELSE /\ gitResult' = GitErr("git checkout -B failed", {}, RunError(r))
                     /\ gpc' = "existing_deferred"
                     /\ UNCHANGED <<fs, head, branch>>
    /\ UNCHANGED <<renames, stagingMade>>
    /\ UNCHANGED <<gitJob, gitKeys>>
    /\ UNCHANGED notGitVars

\* syncExistingRepo: the checkout of master after the checkout of main
\* failed (git_syncer.go 274-280).
GitCheckoutMaster ==
    /\ gpc = "ip_checkout_master"
    /\ \E r \in CommandRuns :
          /\ runGitInTarget("git checkout", CheckoutArgs(branch), r)
          /\ IF r.out = "ok"
                THEN /\ branch \in remote.branches
                     /\ fs' = [fs EXCEPT !["target"] = CheckedOut(@)]
                     /\ head' = branch
                     /\ gpc' = "ip_reset"
                     /\ UNCHANGED gitResult
                ELSE /\ gitResult' = GitErr("git checkout -B master failed", {}, RunError(r))
                     /\ gpc' = "existing_deferred"
                     /\ UNCHANGED <<fs, head>>
    /\ UNCHANGED <<renames, stagingMade, branch>>
    /\ UNCHANGED <<gitJob, gitKeys>>
    /\ UNCHANGED notGitVars

\* syncExistingRepo: `git reset --hard origin/branch`.
GitReset ==
    /\ gpc = "ip_reset"
    /\ \E r \in CommandRuns :
          /\ runGitInTarget("git reset", <<<<"reset">>, <<"--hard">>, <<"origin/", branch>>>>, r)
          /\ IF r.out = "ok"
                THEN /\ gpc' = "ip_clean"
                     /\ UNCHANGED gitResult
                ELSE /\ gitResult' = GitErr("git reset failed", {}, RunError(r))
                     /\ gpc' = "existing_deferred"
    /\ UNCHANGED <<fs, renames, stagingMade, branch, head>>
    /\ UNCHANGED <<gitJob, gitKeys>>
    /\ UNCHANGED notGitVars

\* syncExistingRepo: `git clean -fdx`; return nil.
GitClean ==
    /\ gpc = "ip_clean"
    /\ \E r \in CommandRuns :
          /\ runGitInTarget("git clean", <<<<"clean">>, <<"-fdx">>>>, r)
          /\ IF r.out = "ok"
                THEN /\ fs' = [fs EXCEPT !["target"].entries = NewFiles]
                     /\ gitResult' = GitOK
                ELSE /\ gitResult' = GitErr("git clean failed", {}, RunError(r))
                     /\ UNCHANGED fs
    /\ gpc' = "existing_deferred"
    /\ UNCHANGED <<renames, stagingMade, branch, head>>
    /\ UNCHANGED <<gitJob, gitKeys>>
    /\ UNCHANGED notGitVars

\* syncExistingRepo returns: its deferred cleanup() runs.
GitExistingReturn ==
    /\ gpc = "existing_deferred"
    /\ keyFiles' = CleanupKeyFiles(details, keyFiles, KeyOfExisting)
    /\ sshCommand' = CleanupSSHCommand(details, sshCommand)
    /\ gpc' = "done"
    /\ UNCHANGED <<fs, gitResult, renames, stagingMade, branch, head>>
    /\ UNCHANGED <<gitJob, runVars>>
    /\ UNCHANGED notGitVars


\* ---- GitSyncer.safeCloneWithReplace (git_syncer.go 122-192)

\* The directory tempSyncer clones into: tempSyncer.targetDir = tmpDir.
CloneIntoTarget == "target"
StagingCloneDir == "tmp"

\* The deferred func of safeCloneWithReplace: os.RemoveAll(tmpDir). Its
\* result is discarded; the staging tree was created by this job itself.
NoDeferredCleanup(f) == f
DeferredCleanup(f) == RemoveAll(f, "tmp")

\* The error of the path where both the install rename and the rollback
\* rename failed: "... - target at %s, backup at %s: %w" with the install
\* rename's error as cause.
RestoreFailedErrorTargetOnly(cause) ==
    GitErr("failed to move temp and failed to restore backup", {"target"}, cause)
RestoreFailedError(cause) ==
    GitErr("failed to move temp and failed to restore backup", {"target", "backup"}, cause)

\* What safeCloneWithReplace returns after os.RemoveAll(backupDir): a
\* failure to remove the backup is logged, not returned.
BackupRemovalResultStrict(failed) ==
    IF failed THEN GitErr("failed to remove backup", {"backup"}, "removeall") ELSE GitOK
BackupRemovalResult(failed) == GitOK

\* Where safeCloneWithReplace returns to: syncExistingRepo, whose deferred
\* cleanup is still to run, when the target held a repository; Sync
\* otherwise.
AfterSafeReplace == IF pre.origin # "none" THEN "existing_deferred" ELSE "done"

\* os.MkdirTemp(targetParent, "volume-syncer-git-*")
SR_MkdirTemp ==
    /\ gpc = "sr_mkdtemp"
    /\ \/ /\ fs' = [fs EXCEPT !["tmp"] = EmptyDir]
          /\ stagingMade' = TRUE
          /\ gpc' = "sr_clone"
          /\ UNCHANGED gitResult
       \/ /\ gitResult' = GitErr("failed to create temporary directory", {}, "mkdtemp")
          /\ gpc' = AfterSafeReplace
          /\ UNCHANGED <<fs, stagingMade>>
    /\ UNCHANGED <<renames, branch, head>>
    /\ UNCHANGED <<gitJob, gitKeys, runVars>>
    /\ UNCHANGED notGitVars

\* tempSyncer.cloneRepo(branch) up to the git command: setupSSHKey, defer
\* cleanup(), prepareAuthenticatedURL; on error safeCloneWithReplace
\* returns "clone failed, target directory preserved: %w".
SR_CloneSetup ==
    /\ gpc = "sr_clone"
    /\ \/ /\ keyFiles' = SetupKeyFiles(details, keyFiles, KeyOfClone)
          /\ sshCommand' = SetupSSHCommand(details, sshCommand, KeyOfClone)
          /\ gpc' = "sr_clone_run"
          /\ UNCHANGED gitResult
       \/ \E e \in GitCloneSetupErrors(details) :
             /\ gitResult' = GitErr("clone failed, target directory preserved", {}, e)
             /\ gpc' = "sr_deferred"
             /\ UNCHANGED gitKeys
    /\ UNCHANGED <<fs, renames, stagingMade, branch, head>>
    /\ UNCHANGED <<gitJob, runVars>>
    /\ UNCHANGED notGitVars

\* tempSyncer.cloneRepo(branch): the git command runs under a context of
\* its own; when it fails the deferred cleanup runs as cloneRepo returns
\* and safeCloneWithReplace returns "clone failed, target directory
\* preserved: %w".
SR_Clone ==
    /\ gpc = "sr_clone_run"
    /\ \E r \in CommandRuns :
          /\ Run("git clone", r)
          /\ Log({CloneCommandLine(details)})
          /\ \/ /\ r.out = "ok"
                /\ CloneableBranch(branch, remote)
                /\ fs' = [fs EXCEPT ![StagingCloneDir] = ClonedTree]
                /\ head' = ClonedHead(branch, remote)
                /\ UNCHANGED gitResult
                /\ IF branch = ""
                      THEN /\ gpc' = "sr_clone_show"
                           /\ UNCHANGED gitKeys
                      ELSE /\ keyFiles' = CleanupKeyFiles(details, keyFiles, KeyOfClone)
                           /\ sshCommand' = CleanupSSHCommand(details, sshCommand)
                           /\ gpc' = "sr_backup"
             \/ /\ r.out # "ok"
                /\ \E f \in cloneRunFailuresOf(r, branch, remote) :
                      /\ fs' = [fs EXCEPT ![StagingCloneDir] = f.tree]
                      /\ gitResult' = GitErr("clone failed, target directory preserved",
                                             {}, f.err)
                /\ keyFiles' = CleanupKeyFiles(details, keyFiles, KeyOfClone)
                /\ sshCommand' = CleanupSSHCommand(details, sshCommand)
                /\ gpc' = "sr_deferred"
                /\ UNCHANGED head
    /\ UNCHANGED <<renames, stagingMade, branch>>
    /\ UNCHANGED gitJob
    /\ UNCHANGED notGitVars

\* tempSyncer.cloneRepo after a clone with no branch named: `git branch
\* --show-current` under a context of its own, logged only; cloneRepo
\* returns nil, its deferred cleanup running.
SR_CloneShow ==
    /\ gpc = "sr_clone_show"
    /\ \E r \in CommandRuns : Run("git branch", r)
    /\ keyFiles' = CleanupKeyFiles(details, keyFiles, KeyOfClone)
    /\ sshCommand' = CleanupSSHCommand(details, sshCommand)
    /\ gpc' = "sr_backup"
    /\ UNCHANGED <<fs, gitResult, renames, stagingMade, branch, head, logged>>
    /\ UNCHANGED gitJob
    /\ UNCHANGED notGitVars

\* os.Rename(g.targetDir, backupDir); on error return "failed to backup
\* target directory, target preserved: %w".
SR_Backup ==
    /\ gpc = "sr_backup"
    /\ renames' = Append(renames, "target->backup")
    /\ \/ /\ fs' = Rename(fs, "target", "backup")
          /\ gpc' = "sr_install"
          /\ UNCHANGED gitResult
       \/ /\ gitResult' = GitErr("failed to backup target directory, target preserved",
                                 {}, "rename")
          /\ gpc' = "sr_deferred"
          /\ UNCHANGED fs
    /\ UNCHANGED <<stagingMade, branch, head>>
    /\ UNCHANGED <<gitJob, gitKeys, runVars>>
    /\ UNCHANGED notGitVars

\* As SR_Install, with the backup deleted when the rename has failed.
SR_InstallDroppingBackup ==
    /\ gpc = "sr_install"
    /\ renames' = Append(renames, "tmp->target")
    /\ \/ /\ fs' = Rename(fs, "tmp", "target")
          /\ gpc' = "sr_remove_backup"
       \/ /\ gpc' = "sr_rollback"
          /\ fs' = RemoveAll(fs, "backup")
    /\ UNCHANGED <<gitResult, stagingMade, branch, head>>
    /\ UNCHANGED <<gitJob, gitKeys, runVars>>
    /\ UNCHANGED notGitVars

\* os.Rename(tmpDir, g.targetDir)
SR_Install ==
    /\ gpc = "sr_install"
    /\ renames' = Append(renames, "tmp->target")
    /\ \/ /\ fs' = Rename(fs, "tmp", "target")
          /\ gpc' = "sr_remove_backup"
       \/ /\ gpc' = "sr_rollback"
          /\ UNCHANGED fs
    /\ UNCHANGED <<gitResult, stagingMade, branch, head>>
    /\ UNCHANGED <<gitJob, gitKeys, runVars>>
    /\ UNCHANGED notGitVars

\* os.Rename(backupDir, g.targetDir) after the install rename failed.
SR_Rollback ==
    /\ gpc = "sr_rollback"
    /\ renames' = Append(renames, "backup->target")
    /\ \/ /\ fs' = Rename(fs, "backup", "target")
          /\ gitResult' = GitErr("failed to move temporary clone to target, target restored",
                                 {}, "rename")
       \/ /\ gitResult' = RestoreFailedError("rename")
          /\ UNCHANGED fs
    /\ gpc' = "sr_deferred"
    /\ UNCHANGED <<stagingMade, branch, head>>
    /\ UNCHANGED <<gitJob, gitKeys, runVars>>
    /\ UNCHANGED notGitVars

\* os.RemoveAll(backupDir) after the install rename succeeded; return nil.
SR_RemoveBackup ==
    /\ gpc = "sr_remove_backup"
    /\ \/ /\ fs' = RemoveAll(fs, "backup")
          /\ gitResult' = BackupRemovalResult(FALSE)
       \/ /\ fs' \in RemoveAllFailed(fs, "backup")
          /\ gitResult' = BackupRemovalResult(TRUE)
    /\ gpc' = "sr_deferred"
    /\ UNCHANGED <<renames, stagingMade, branch, head>>
    /\ UNCHANGED <<gitJob, gitKeys, runVars>>
    /\ UNCHANGED notGitVars

\* The deferred os.RemoveAll(tmpDir) runs as safeCloneWithReplace returns:
\* to Sync, or to syncExistingRepo when the target held a repository.
SR_Deferred ==
    /\ gpc = "sr_deferred"
    /\ fs' = DeferredCleanup(fs)
    /\ gpc' = AfterSafeReplace
    /\ UNCHANGED <<gitResult, renames, stagingMade, branch, head>>
    /\ UNCHANGED <<gitJob, gitKeys, runVars>>
    /\ UNCHANGED notGitVars


InitGit ==
    /\ gpc = "validate"
    /\ pre \in TargetStates
    /\ details \in DetailsStates
    /\ remote \in Remotes
    /\ fs = [d \in {"target", "tmp", "backup"} |-> IF d = "target" THEN pre ELSE Absent]
    /\ gitResult = NoResult
    /\ renames = <<>>
    /\ stagingMade = FALSE
    /\ branch = details.branch
    /\ head = "none"
    /\ keyFiles = {}
    /\ sshCommand = "unset"

NextGit ==
    \/ GitValidate
    \/ GitEnsureDir
    \/ GitDispatch
    \/ GitFreshCloneSetup
    \/ GitFreshClone
    \/ GitFreshCloneShow
    \/ GitExistingSetup
    \/ GitExistingRepo
    \/ GitSetURL
    \/ GitFetch
    \/ GitSymbolicRef
    \/ GitSetHead
    \/ GitSymbolicRefRetry
    \/ GitTryBranch
    \/ GitCheckout
    \/ GitCheckoutMaster
    \/ GitReset
    \/ GitClean
    \/ GitExistingReturn
    \/ SR_MkdirTemp
    \/ SR_CloneSetup
    \/ SR_Clone
    \/ SR_CloneShow
    \/ SR_Backup
    \/ SR_Install
    \/ SR_Rollback
    \/ SR_RemoveBackup
    \/ SR_Deferred

\* The service with no git job modelled, and a git job with no service.
GitIdle ==
    /\ gpc = "idle"
    /\ pre = Absent
    /\ details = [user |-> FALSE, password |-> FALSE, privateKey |-> FALSE, branch |-> ""]
    /\ remote = [branches |-> {"main"}, default |-> "main"]
    /\ fs = [d \in {"target", "tmp", "backup"} |-> Absent]
    /\ gitResult = NoResult
    /\ renames = <<>>
    /\ stagingMade = FALSE
    /\ branch = ""
    /\ head = "none"
    /\ keyFiles = {}
    /\ sshCommand = "unset"


\* =========================================================================
\* Part 3: SSHSyncer.Sync (specification SpecSync runs one job of the git
\* or of the ssh strategy)
\* =========================================================================

\* Remote paths an ssh job may carry ("": none given).
RemotePaths == {"", "/data", "/data/"}

\* SSHDetails as the factory lets them through (types.go 106-155): host
\* and user are present; a password never comes with a key or a key path.
SSHDetailsStates ==
    {d \in [password : BOOLEAN, key_path : BOOLEAN, privateKey : BOOLEAN,
            path : RemotePaths] :
        ~(d.password /\ (d.privateKey \/ d.key_path))}

\* The name os.CreateTemp("", "ssh_key_*") gives the key file.
KeyOfSSH == "ssh_key"

\* buildRsyncCommand: sourcePath := s.sshDetails.Path; if it does not end
\* with "/", a "/" is appended.
HasSlashSuffix(p) == p \in {"/", "/data/"}
AppendSlash(p) ==
    CASE p = "" -> "/"
      [] p = "/data" -> "/data/"
      [] OTHER -> p
RsyncSourcePath(p) == IF HasSlashSuffix(p) THEN p ELSE AppendSlash(p)

SSHOK == [status |-> "ok", msg |-> "none"]
SSHErr(m) == [status |-> "error", msg |-> m]
SSHNoResult == [status |-> "none", msg |-> "none"]

\* Sync: utils.EnsureDir(s.targetPath)
SSHEnsureDir ==
    /\ spc = "ensure_dir"
    /\ \/ /\ spc' = "auth"
          /\ UNCHANGED sshResult
       \/ /\ sshResult' = SSHErr("failed to create target directory")
          /\ spc' = "done"
    /\ UNCHANGED <<sshDetails, rsyncSource, keyFiles, runVars>>
    /\ UNCHANGED notSSHVars

\* Sync, with a base64 private key (ssh_syncer.go 136-137): the first and
\* the last 50 characters of the decoded key are logged.
KeyDebugLines ==
    {Line("ssh_syncer.go:136", <<<<"Key starts with: ", KeyMaterial>>>>),
     Line("ssh_syncer.go:137", <<<<"Key ends with: ", KeyMaterial>>>>)}

\* Sync: the branch on KeyPath, PrivateKey, Password (ssh_syncer.go
\* 77-163) up to the connection test. With a key path the file is read,
\* with a private key the base64 text is decoded; then createTempKeyFile
\* writes the key file (removing it again if Chmod or Write fails) and its
\* os.Remove is deferred. With a password sshpass must be installed.
SSHAuthSetup ==
    /\ spc = "auth"
    /\ IF sshDetails.key_path
          THEN \/ /\ keyFiles' = keyFiles \cup {KeyOfSSH}
                  /\ spc' = "probe"
                  /\ UNCHANGED sshResult
               \/ \E e \in {"failed to read private key file",
                            "failed to create temporary key file"} :
                     /\ sshResult' = SSHErr(e)
                     /\ spc' = "done"
                     /\ UNCHANGED keyFiles
          ELSE IF sshDetails.privateKey
          THEN \/ /\ keyFiles' = keyFiles \cup {KeyOfSSH}
                  /\ spc' = "probe"
                  /\ UNCHANGED sshResult
               \/ \E e \in {"failed to decode base64 private key",
                            "failed to create temporary key file"} :
                     /\ sshResult' = SSHErr(e)
                     /\ spc' = "done"
                     /\ UNCHANGED keyFiles
          ELSE IF sshDetails.password
          THEN \/ /\ spc' = "probe"
                  /\ UNCHANGED <<sshResult, keyFiles>>
               \/ /\ sshResult' = SSHErr("password authentication requires 'sshpass' utility")
                  /\ spc' = "done"
                  /\ UNCHANGED keyFiles
          ELSE /\ spc' = "probe"
               /\ UNCHANGED <<sshResult, keyFiles>>
    /\ IF /\ ~sshDetails.key_path
          /\ sshDetails.privateKey
          /\ sshResult'.msg # "failed to decode base64 private key"
          THEN Log(KeyDebugLines)
          ELSE UNCHANGED logged
    /\ UNCHANGED <<sshDetails, rsyncSource, ops, elapsed>>
    /\ UNCHANGED notSSHVars

\* testSSHConnection (ssh_syncer.go 247-289) is not given the job's
\* timeout: ssh.Dial bounds the TCP connection by 10 seconds of its own,
\* the handshake and session.Run are bounded by nothing. The probe ends,
\* well or not, after any time, or it never ends.
ProbeRuns == {[d |-> d, out |-> o] : d \in 0 .. Timeout, o \in {"ok", "failed"}}

\* Sync: s.testSSHConnection(...); its error is returned as "SSH
\* connection test failed: %w".
SSHProbeSkipped ==
    /\ spc = "probe"
    /\ spc' = "lookup"
    /\ UNCHANGED <<sshResult, sshDetails, rsyncSource, keyFiles, runVars>>
    /\ UNCHANGED notSSHVars
SSHProbe ==
    /\ spc = "probe"
    /\ \/ \E r \in ProbeRuns :
             /\ Run("ssh probe", r)
             /\ IF r.out = "ok"
                   THEN /\ spc' = "lookup"
                        /\ UNCHANGED sshResult
                   ELSE /\ sshResult' = SSHErr("SSH connection test failed")
                        /\ spc' = "deferred"
       \/ /\ ops' = Append(ops, [cmd |-> "ssh probe", late |-> elapsed >= Timeout,
                                 out |-> "never"])
          /\ elapsed' = Timeout
          /\ spc' = "probe_blocked"
          /\ UNCHANGED sshResult
    /\ UNCHANGED <<sshDetails, rsyncSource, keyFiles, logged>>
    /\ UNCHANGED notSSHVars

\* Sync: exec.LookPath("ssh") and the common locations.
SSHLookPath ==
    /\ spc = "lookup"
    /\ \/ /\ spc' = "rsync"
          /\ UNCHANGED sshResult
       \/ /\ sshResult' = SSHErr("ssh command not found")
          /\ spc' = "deferred"
    /\ UNCHANGED <<sshDetails, rsyncSource, keyFiles, runVars>>
    /\ UNCHANGED notSSHVars

\* buildRsyncCommand (ssh_syncer.go 333-355): the ssh command handed to
\* rsync -e; keyFile is "" unless Sync made a key file.
SSHCommandText(d) ==
    IF d.key_path \/ d.privateKey
       THEN <<"ssh -i ", KeyOfSSH, " -p 22 -o StrictHostKeyChecking=no">>
       ELSE IF d.password
       THEN <<"sshpass -p '", Password, "'", " ssh -p 22 -o StrictHostKeyChecking=no">>
       ELSE <<"ssh -p 22 -o StrictHostKeyChecking=no">>

\* buildRsyncCommand (ssh_syncer.go 357-377), with the "rsync" of cmd.Args.
RsyncArgs(d) ==
    <<<<"rsync">>, <<"-avz">>, <<"--delete">>, <<"--progress">>, <<"-e">>,
      SSHCommandText(d), <<"user", "@", "host", ":", RsyncSourcePath(d.path)>>,
      <<"target/">>>>

\* maskSSHCredentials (ssh_syncer.go 26-43) on one argument: a match of
\* ([^:@]+):([^@]+)@ keeps what stands before the colon and has "***"
\* after it, a match of sshpass -p '([^']+)' has "***" between the quotes.
\* Its third rule, for arguments holding the word "password", applies to
\* none of the arguments of rsync.
RECURSIVE maskSSHArgument(_)
maskSSHArgument(text) ==
    IF text = <<>> THEN <<>>
    ELSE IF Len(text) >= 4 /\ text[2] = ":" /\ text[4] = "@"
       THEN <<text[1], ":", "***", "@">> \o maskSSHArgument(SubSeq(text, 5, Len(text)))
    ELSE IF Len(text) >= 3 /\ text[1] = "sshpass -p '" /\ text[3] = "'"
       THEN <<text[1], "***", "'">> \o maskSSHArgument(SubSeq(text, 4, Len(text)))
       ELSE <<Head(text)>> \o maskSSHArgument(Tail(text))
maskSSHCredentials(args) == [i \in DOMAIN args |-> maskSSHArgument(args[i])]

\* Sync: buildRsyncCommand(tmpKeyFile), which logs the ssh command as it
\* is (ssh_syncer.go 380); the masked arguments are logged (229) and rsync
\* runs under a context made for it with the job's timeout.
SSHRsync ==
    /\ spc = "rsync"
    /\ rsyncSource' = RsyncSourcePath(sshDetails.path)
    /\ Log({Line("ssh_syncer.go:380", <<SSHCommandText(sshDetails)>>),
            Line("ssh_syncer.go:229", maskSSHCredentials(RsyncArgs(sshDetails)))})
    /\ \E r \in CommandRuns :
          /\ Run("rsync", r)
          /\ sshResult' = CASE r.out = "ok" -> SSHOK
                            [] r.out = "failed" -> SSHErr("rsync failed")
                            [] r.out = "timed out" -> SSHErr("sync operation timed out")
    /\ spc' = "deferred"
    /\ UNCHANGED <<sshDetails, keyFiles>>
    /\ UNCHANGED notSSHVars

\* The deferred os.Remove(tmpKeyFile) of Sync, if one was registered.
SSHDeferredRemove(kf) == kf \ {KeyOfSSH}

\* Sync returns after the connection test was reached: its deferred
\* functions run.
SSHReturn ==
    /\ spc = "deferred"
    /\ keyFiles' = IF sshDetails.key_path \/ sshDetails.privateKey
                      THEN SSHDeferredRemove(keyFiles) ELSE keyFiles
    /\ spc' = "done"
    /\ UNCHANGED <<sshDetails, sshResult, rsyncSource, runVars>>
    /\ UNCHANGED notSSHVars

InitSSH ==
    /\ spc = "ensure_dir"
    /\ sshDetails \in SSHDetailsStates
    /\ sshResult = SSHNoResult
    /\ rsyncSource = "none"

SSHIdle ==
    /\ spc = "idle"
    /\ sshDetails = [password |-> FALSE, key_path |-> FALSE, privateKey |-> FALSE,
                     path |-> "/data"]
    /\ sshResult = SSHNoResult
    /\ rsyncSource = "none"

NextSSH ==
    \/ SSHEnsureDir
    \/ SSHAuthSetup
    \/ SSHProbe
    \/ SSHLookPath
    \/ SSHRsync
    \/ SSHReturn

\* =========================================================================
\* Part 4: SyncerFactory.CreateSyncer as a step machine (specification
\* SpecFactory), with NewS3Syncer's sessions and connection tests
\* =========================================================================

\* CreateSyncer: the switch on source.Type and the parsing of the details;
\* for ssh, git and http the constructor then only fills a struct.
FactoryParse ==
    /\ fpc = "parse"
    /\ IF ParseError(source) # "none"
          THEN /\ facErr' = ParseError(source)
               /\ fpc' = "failed"
          ELSE /\ fpc' = IF source.type = "s3" THEN "s3_session" ELSE "built"
               /\ UNCHANGED facErr
    /\ UNCHANGED <<source, netCalls, pathStyle>>
    /\ UNCHANGED notFactoryVars

\* NewS3Syncer: forcePathStyle is true unless the endpoint is AWS;
\* session.NewSession(config).
S3NewSession ==
    /\ fpc = "s3_session"
    /\ \/ /\ pathStyle' = ~source.details.aws
          /\ fpc' = "s3_test"
          /\ UNCHANGED facErr
       \/ /\ facErr' = "failed to create AWS session"
          /\ fpc' = "failed"
          /\ UNCHANGED pathStyle
    /\ UNCHANGED <<source, netCalls>>
    /\ UNCHANGED notFactoryVars

\* NewS3Syncer: syncer.testConnection(), a ListObjectsV2 request with a
\* deadline of 10 seconds. If it fails, AWS endpoints give up and other
\* endpoints go on to the opposite path style.
S3TestConnection ==
    /\ fpc = "s3_test"
    /\ netCalls' = netCalls + 1
    /\ \/ /\ fpc' = "built"
          /\ UNCHANGED facErr
       \/ /\ source.details.aws
          /\ facErr' = "failed to connect to AWS S3"
          /\ fpc' = "failed"
       \/ /\ ~source.details.aws
          /\ fpc' = "s3_retry_session"
          /\ UNCHANGED facErr
    /\ UNCHANGED <<source, pathStyle>>
    /\ UNCHANGED notFactoryVars

\* NewS3Syncer: config.S3ForcePathStyle = false; session.NewSession(config).
S3RetrySession ==
    /\ fpc = "s3_retry_session"
    /\ \/ /\ pathStyle' = FALSE
          /\ fpc' = "s3_retry_test"
          /\ UNCHANGED facErr
       \/ /\ facErr' = "failed to create fallback AWS session"
          /\ fpc' = "failed"
          /\ UNCHANGED pathStyle
    /\ UNCHANGED <<source, netCalls>>
    /\ UNCHANGED notFactoryVars

\* NewS3Syncer: the second syncer.testConnection().
S3RetryTest ==
    /\ fpc = "s3_retry_test"
    /\ netCalls' = netCalls + 1
    /\ \/ /\ fpc' = "built"
          /\ UNCHANGED facErr
       \/ /\ facErr' = "failed to establish S3 connection with both path styles"
          /\ fpc' = "failed"
    /\ UNCHANGED <<source, pathStyle>>
    /\ UNCHANGED notFactoryVars

InitFactory ==
    /\ fpc = "parse"
    /\ source \in Sources
    /\ facErr = "none"
    /\ netCalls = 0
    /\ pathStyle = TRUE

FactoryIdle ==
    /\ fpc = "idle"
    /\ source = [type |-> "git", details |-> GitURLOnly]
    /\ facErr = "none"
    /\ netCalls = 0
    /\ pathStyle = TRUE

NextFactory ==
    \/ FactoryParse
    \/ S3NewSession
    \/ S3TestConnection
    \/ S3RetrySession
    \/ S3RetryTest

\* =========================================================================
\* Part 5: main (specification SpecShutdown): the server process from the
\* shutdown signal to its exit, beside the job of a background goroutine
\* =========================================================================

\* main: <-quit returns when SIGINT or SIGTERM is delivered (main.go 40-44).
MainSignal ==
    /\ proc = "serving"
    /\ proc' = "shutting_down"
    /\ UNCHANGED notMainVars

\* main: srv.Shutdown(ctx) returns and main returns (main.go 46-54).
\* http.Server.Shutdown waits for the connections of the handlers, and a
\* handler has answered before its background goroutine calls Sync(); the
\* goroutine is waited for by nobody and ends with the process, where it
\* is, its deferred calls not run.
MainReturn ==
    /\ proc = "shutting_down"
    /\ proc' = "exited"
    /\ UNCHANGED notMainVars

\* The server is up.
MainServing == proc = "serving"

\* =========================================================================
\* Part 6: HTTPSyncer.Sync (specification SpecHTTP)
\* =========================================================================

\* A text (a path, a header value, a file name) is a sequence of parts;
\* the part "/" is the separator of paths and the parts "\"" and "'" are
\* the quotation marks.

\* The target path of a job (HTTPSyncer.targetPath, S3Syncer.targetPath),
\* an absolute path.
TargetPath == <<"/", "data", "/", "vol">>

\* The path of the URL of a job (req.URL.Path).
URLPaths ==
    {<<>>,
     <<"/">>,
     <<"/", "files", "/", "a.txt">>,
     <<"/", "files", "/">>,
     <<"/", "files", "/", "..">>}

\* The Content-Disposition header of the response: whether the response
\* has one, whether it has a filename parameter, the value of that
\* parameter, the quotation mark around it ("": none) and the parameters
\* that follow it.
NoHeader == [present |-> FALSE, hasFilename |-> FALSE, value |-> <<>>, quote |-> "", rest |-> <<>>]
Disposition(v, q, r) ==
    [present |-> TRUE, hasFilename |-> TRUE, value |-> v, quote |-> q, rest |-> r]
Headers ==
    {NoHeader,
     [NoHeader EXCEPT !.present = TRUE],
     Disposition(<<"b.txt">>, "\"", <<>>),
     Disposition(<<"b.txt">>, "", <<>>),
     Disposition(<<"b.txt">>, "'", <<>>),
     Disposition(<<>>, "\"", <<>>),
     Disposition(<<"b.txt">>, "\"", <<";", " ", "size=10">>),
     Disposition(<<>>, "\"", <<";", " ", "size=10">>),
     Disposition(<<"..", "/", "evil">>, "\"", <<>>),
     Disposition(<<"sub", "/", "b.txt">>, "\"", <<>>),
     Disposition(<<".">>, "\"", <<>>)}

\* The header as the server sends it and resp.Header.Get returns it ("" if
\* the response has none).
HeaderText(h) ==
    IF ~h.present THEN <<>>
    ELSE <<"attachment">> \o
         (IF ~h.hasFilename THEN <<>>
          ELSE <<";", " ", "filename=">>
                 \o (IF h.quote = "" THEN <<>> ELSE <<h.quote>>)
                 \o h.value
                 \o (IF h.quote = "" THEN <<>> ELSE <<h.quote>>)
                 \o h.rest)

\* strings.Index(s, part): the position of the first occurrence, 0 if none.
Index(s, part) ==
    IF \E i \in DOMAIN s : s[i] = part
       THEN CHOOSE i \in DOMAIN s : s[i] = part /\ \A j \in 1 .. (i - 1) : s[j] # part
       ELSE 0

\* strings.Trim(s, "\"'"): the quotation marks at both ends are cut off.
RECURSIVE TrimLeft(_)
TrimLeft(s) ==
    IF s # <<>> /\ Head(s) \in {"\"", "'"} THEN TrimLeft(Tail(s)) ELSE s
RECURSIVE TrimRight(_)
TrimRight(s) ==
    IF s # <<>> /\ s[Len(s)] \in {"\"", "'"}
       THEN TrimRight(SubSeq(s, 1, Len(s) - 1)) ELSE s
Trim(s) == TrimRight(TrimLeft(s))

\* strings.Split(s, "/"): the elements of a path, each a text.
RECURSIVE Split(_)
Split(s) ==
    LET i == Index(s, "/") IN
    IF i = 0 THEN <<s>>
    ELSE <<SubSeq(s, 1, i - 1)>> \o Split(SubSeq(s, i + 1, Len(s)))

\* path.Base: the last element of a path, after the slashes at its end
\* are cut off; "." for the empty path and "/" for one of slashes only.
RECURSIVE TrimSlashes(_)
TrimSlashes(s) ==
    IF s # <<>> /\ s[Len(s)] = "/" THEN TrimSlashes(SubSeq(s, 1, Len(s) - 1)) ELSE s
Base(s) ==
    IF s = <<>> THEN <<".">>
    ELSE IF TrimSlashes(s) = <<>> THEN <<"/">>
    ELSE LET els == Split(TrimSlashes(s)) IN els[Len(els)]

\* path.Clean of a rooted path, as the elements below the root: empty
\* elements and "." are dropped, ".." drops the element before it and is
\* dropped itself at the root.
RECURSIVE CleanElements(_, _)
CleanElements(els, acc) ==
    IF els = <<>> THEN acc
    ELSE LET e == Head(els) IN
         CleanElements(Tail(els),
            IF e = <<>> \/ e = <<".">> THEN acc
            ELSE IF e = <<"..">>
               THEN (IF acc = <<>> THEN acc ELSE SubSeq(acc, 1, Len(acc) - 1))
            ELSE Append(acc, e))
Clean(s) == CleanElements(Split(s), <<>>)

\* path.Join(dir, name) for a rooted dir and a name that is not empty.
Join(dir, name) == Clean(dir \o <<"/">> \o name)

\* The file name Sync() gives the download (http_syncer.go 76-96): the
\* base of the URL's path, "downloaded_file" if that is ".", "/" or "";
\* if the response has a Content-Disposition header that holds
\* "filename=", all that follows it to the end of the header, with the
\* quotation marks at both ends cut off, unless that is empty.
FilenameFromURL(p) ==
    IF Base(p) \in {<<".">>, <<"/">>, <<>>} THEN <<"downloaded_file">> ELSE Base(p)
FilenameFromHeader(cd) ==
    LET idx == Index(cd, "filename=") IN
    IF cd = <<>> \/ idx = 0 THEN <<>>
    ELSE Trim(SubSeq(cd, idx + 1, Len(cd)))
Filename(p, cd) ==
    IF FilenameFromHeader(cd) # <<>> THEN FilenameFromHeader(cd) ELSE FilenameFromURL(p)

\* A rooted path lies inside the directory dir: below it, not dir itself.
Inside(p, dir) == Len(p) > Len(dir) /\ SubSeq(p, 1, Len(dir)) = dir

\* The directories that exist once EnsureDir(targetPath) has succeeded:
\* the target and the directories above it, up to the root.
Directories == {SubSeq(Clean(TargetPath), 1, n) : n \in 0 .. Len(Clean(TargetPath))}

\* os.Create(p) can succeed: p is not a directory and the directory it
\* lies in exists.
CanCreate(p) ==
    /\ p \notin Directories
    /\ p # <<>>
    /\ SubSeq(p, 1, Len(p) - 1) \in Directories

\* An operation under the one context Sync() makes at its start
\* (http_syncer.go 47, s3_syncer.go 171): it ends by itself before the
\* deadline of the job, or it is cancelled when that deadline comes.
ContextRuns ==
    {[d |-> d, out |-> o] : d \in 0 .. (Timeout - elapsed - 1), o \in {"ok", "failed"}}
      \cup {[d |-> Timeout - elapsed, out |-> "timed out"]}

\* The status lines a server may answer with (resp.StatusCode, resp.Status).
Statuses ==
    {[code |-> 200, text |-> "200 OK"],
     [code |-> 204, text |-> "204 No Content"],
     [code |-> 304, text |-> "304 Not Modified"],
     [code |-> 404, text |-> "404 Not Found"],
     [code |-> 500, text |-> "500 Internal Server Error"]}

\* http.StatusOK
StatusOK == 200

\* A Sync that takes the body of any response.
StatusAcceptedAlways(code) == TRUE

\* Sync: resp.StatusCode != http.StatusOK is an error (http_syncer.go 72).
StatusAccepted(code) == code = StatusOK

\* What Sync returned: the message of its error and, for
\* "HTTP request failed: %s", the resp.Status that follows it.
HTTPNoResult == [status |-> "none", msg |-> "none", text |-> "none"]
HTTPOK == [status |-> "ok", msg |-> "none", text |-> "none"]
HTTPErr(m) == [status |-> "error", msg |-> m, text |-> "none"]
HTTPStatusErr(st) == [status |-> "error", msg |-> "HTTP request failed", text |-> st.text]

HTTPReturn(res) ==
    /\ httpResult' = res
    /\ dpc' = "done"

\* Sync: utils.EnsureDir(h.targetPath), then the context of the job.
HTTPEnsureDir ==
    /\ dpc = "ensure_dir"
    /\ \/ HTTPReturn(HTTPErr("failed to create target directory"))
       \/ dpc' = "request" /\ UNCHANGED httpResult
    /\ Log({Line("http_syncer.go:36", <<<<"http://host">> \o httpJob.path>>)})
    /\ UNCHANGED <<httpJob, filename, outPath, created, ops, elapsed>>
    /\ UNCHANGED notHTTPVars

\* Sync: http.NewRequestWithContext, client.Do and the test of the status.
\* With status 200 the file name and the output path are worked out.
HTTPDo ==
    /\ dpc = "request"
    /\ \E r \in ContextRuns :
          /\ Run("http get", r)
          /\ IF r.out # "ok"
                THEN /\ HTTPReturn(HTTPErr("failed to download file"))
                     /\ UNCHANGED <<filename, outPath>>
                ELSE IF ~StatusAccepted(httpJob.response.code)
                THEN /\ HTTPReturn(HTTPStatusErr(httpJob.response))
                     /\ UNCHANGED <<filename, outPath>>
                ELSE /\ filename' = Filename(httpJob.path, HeaderText(httpJob.header))
                     /\ outPath' = Join(TargetPath, filename')
                     /\ dpc' = "create"
                     /\ UNCHANGED httpResult
    /\ UNCHANGED <<httpJob, created, logged>>
    /\ UNCHANGED notHTTPVars

\* Sync: os.Create(outPath).
HTTPCreate ==
    /\ dpc = "create"
    /\ \/ /\ CanCreate(outPath)
          /\ created' = {outPath}
          /\ dpc' = "copy"
          /\ UNCHANGED httpResult
       \/ /\ HTTPReturn(HTTPErr("failed to create target file"))
          /\ UNCHANGED created
    /\ UNCHANGED <<httpJob, filename, outPath, runVars>>
    /\ UNCHANGED notHTTPVars

\* Sync: io.Copy(out, resp.Body); the body is read under the context of
\* the request.
HTTPCopy ==
    /\ dpc = "copy"
    /\ \E r \in ContextRuns :
          /\ Run("http body", r)
          /\ HTTPReturn(IF r.out = "ok" THEN HTTPOK ELSE HTTPErr("failed to write file"))
    /\ UNCHANGED <<httpJob, filename, outPath, created, logged>>
    /\ UNCHANGED notHTTPVars

InitHTTP ==
    /\ dpc = "ensure_dir"
    /\ httpJob \in [path : URLPaths, response : Statuses, header : Headers]
    /\ httpResult = HTTPNoResult
    /\ filename = <<>>
    /\ outPath = <<>>
    /\ created = {}

HTTPIdle ==
    /\ dpc = "idle"
    /\ httpJob = [path |-> <<>>, response |-> [code |-> 200, text |-> "200 OK"],
                  header |-> NoHeader]
    /\ httpResult = HTTPNoResult
    /\ filename = <<>>
    /\ outPath = <<>>
    /\ created = {}

NextHTTP ==
    \/ HTTPEnsureDir
    \/ HTTPDo
    \/ HTTPCreate
    \/ HTTPCopy

\* =========================================================================
\* Part 7: S3Syncer.Sync (specification SpecS3)
\* =========================================================================

\* The keys a bucket may hold, in the order ListObjectsV2 returns keys
\* (the order of their bytes): a, a/, a/b/, a/b/y.txt, a/x.txt.
KeyOrder ==
    <<<<"a">>,
      <<"a", "/">>,
      <<"a", "/", "b", "/">>,
      <<"a", "/", "b", "/", "y.txt">>,
      <<"a", "/", "x.txt">>>>
Keys == {KeyOrder[i] : i \in DOMAIN KeyOrder}

\* S3Details.Path, the prefix of a job.
Prefixes == {<<>>, <<"a">>, <<"a", "/">>, <<"a", "/", "x.txt">>}

\* strings.HasPrefix, strings.HasSuffix(s, "/") and strings.TrimPrefix.
HasPrefix(s, p) == Len(s) >= Len(p) /\ SubSeq(s, 1, Len(p)) = p
EndsInSlash(s) == s # <<>> /\ s[Len(s)] = "/"
TrimPrefix(s, p) == IF HasPrefix(s, p) THEN SubSeq(s, Len(p) + 1, Len(s)) ELSE s

\* What ListObjectsV2 with Prefix: s.details.Path returns from a bucket.
Listing(job) ==
    SelectSeq(KeyOrder, LAMBDA k : k \in job.bucket /\ HasPrefix(k, job.prefix))

\* A listObjects that keeps every key of the listing.
SkipsKeyNever(k) == FALSE

\* listObjects (s3_syncer.go 234-240): a key that ends in "/" is skipped.
SkipsKey(k) == EndsInSlash(k)

\* listObjects: the objects of all pages that are not skipped.
listObjects(job) == SelectSeq(Listing(job), LAMBDA k : ~SkipsKey(k))

\* downloadObject (s3_syncer.go 259-266): the key without the prefix, or
\* the base of the key when nothing is left, joined to the target.
RelativePath(k, prefix) ==
    IF TrimPrefix(k, prefix) = <<>> THEN Base(k) ELSE TrimPrefix(k, prefix)
LocalPath(k, prefix) == Join(TargetPath, RelativePath(k, prefix))

\* filepath.Dir of a cleaned path below the root.
Dir(p) == SubSeq(p, 1, Len(p) - 1)

\* utils.EnsureDir(dir) can succeed: no file lies at dir or above it.
CanEnsureDir(dir, files) == \A n \in 1 .. Len(dir) : SubSeq(dir, 1, n) \notin files

S3NoResult == [status |-> "none", msg |-> "none"]
S3OK == [status |-> "ok", msg |-> "none"]
S3Err(m) == [status |-> "error", msg |-> m]

\* The files the job has downloaded and left on disk.
Files == {d.path : d \in downloads}

\* os.Create(localPath) for the object key: the file at that path is now
\* the one of this object.
CreateFile(ds, key, p) == {d \in ds : d.path # p} \cup {[key |-> key, path |-> p]}

\* A downloadObject that leaves the file of a failed download.
RemoveFileNever(ds, p) == ds

\* os.Remove(localPath) after a failed download (s3_syncer.go 295-299).
RemoveFile(ds, p) == {d \in ds : d.path # p}

S3Return(res) ==
    /\ s3Result' = res
    /\ zpc' = "done"

\* Sync: the context of the job and utils.EnsureDir(s.targetPath).
S3EnsureDir ==
    /\ zpc = "ensure_dir"
    /\ \/ S3Return(S3Err("failed to create target directory"))
       \/ zpc' = "list" /\ UNCHANGED s3Result
    /\ UNCHANGED <<s3Job, objects, downloads, runVars>>
    /\ UNCHANGED notS3Vars

\* Sync: objects, err := s.listObjects(ctx); no object is success.
S3List ==
    /\ zpc = "list"
    /\ \E r \in ContextRuns :
          /\ Run("s3 list", r)
          /\ CASE r.out = "timed out" ->
                    /\ S3Return(S3Err("S3 listing operation timed out"))
                    /\ UNCHANGED objects
               [] r.out = "failed" ->
                    /\ S3Return(S3Err("failed to list S3 objects"))
                    /\ UNCHANGED objects
               [] r.out = "ok" ->
                    /\ objects' = listObjects(s3Job)
                    /\ IF objects' = <<>>
                          THEN S3Return(S3OK)
                          ELSE zpc' = "download" /\ UNCHANGED s3Result
    /\ UNCHANGED <<s3Job, downloads, logged>>
    /\ UNCHANGED notS3Vars

\* Sync: one turn of the loop over the objects, s.downloadObject(ctx, obj).
\* The directory of the local path is made, the file is created and the
\* object is downloaded into it; a download that fails removes the file.
S3Download ==
    /\ zpc = "download"
    /\ LET key == Head(objects)
           localPath == LocalPath(key, s3Job.prefix)
       IN \/ /\ S3Return(S3Err("failed to create directory"))
             /\ UNCHANGED <<objects, downloads, ops, elapsed>>
          \/ /\ CanEnsureDir(Dir(localPath), Files)
             /\ S3Return(S3Err("failed to create local file"))
             /\ UNCHANGED <<objects, downloads, ops, elapsed>>
          \/ /\ CanEnsureDir(Dir(localPath), Files)
             /\ localPath \notin Directories
             /\ \E r \in ContextRuns :
                   /\ Run("s3 get", r)
                   /\ CASE r.out = "timed out" ->
                             /\ S3Return(S3Err("S3 download operation timed out"))
                             /\ downloads' = RemoveFile(CreateFile(downloads, key, localPath),
                                                       localPath)
                             /\ UNCHANGED objects
                        [] r.out = "failed" ->
                             /\ S3Return(S3Err("failed to download object"))
                             /\ downloads' = RemoveFile(CreateFile(downloads, key, localPath),
                                                       localPath)
                             /\ UNCHANGED objects
                        [] r.out = "ok" ->
                             /\ downloads' = CreateFile(downloads, key, localPath)
                             /\ objects' = Tail(objects)
                             /\ IF objects' = <<>>
                                   THEN S3Return(S3OK)
                                   ELSE UNCHANGED <<zpc, s3Result>>
    /\ UNCHANGED <<s3Job, logged>>
    /\ UNCHANGED notS3Vars

InitS3 ==
    /\ zpc = "ensure_dir"
    /\ s3Job \in [prefix : Prefixes, bucket : SUBSET Keys]
    /\ s3Result = S3NoResult
    /\ objects = <<>>
    /\ downloads = {}

S3Idle ==
    /\ zpc = "idle"
    /\ s3Job = [prefix |-> <<>>, bucket |-> {}]
    /\ s3Result = S3NoResult
    /\ objects = <<>>
    /\ downloads = {}

NextS3 ==
    \/ S3EnsureDir
    \/ S3List
    \/ S3Download

\* =========================================================================
\* Specifications
\* =========================================================================

\* No job has started an operation, used time or logged a line.
RunIdle ==
    /\ ops = <<>>
    /\ elapsed = 0
    /\ logged = {}

\* The parts a specification does not run stay as constructed.
ServerIdle == InitService /\ FactoryIdle /\ MainServing

\* No job of the http or of the s3 strategy is run.
TransfersIdle == HTTPIdle /\ S3Idle

Init == ServerIdle /\ GitIdle /\ SSHIdle /\ TransfersIdle /\ RunIdle
Next == NextService
Spec == Init /\ [][Next]_vars

\* A step of a goroutine of the service: of a handler after its request
\* arrived, or of a task.
Runs ==
    \E p \in Requests :
        \/ HandlerCheck(p) \/ HandlerBind(p) \/ StartSyncLock(p)
        \/ StartSyncCheck(p) \/ StartSyncValidate(p) \/ StartSyncCreate(p)
        \/ StartSyncLaunch(p) \/ HandlerRespond(p) \/ TaskBegin(p)
        \/ TaskSyncReturns(p) \/ TaskDeferLock(p) \/ TaskDeferReset(p)

\* The service with its goroutines scheduled: while some goroutine can
\* take a step, one of them does (the Go scheduler runs runnable
\* goroutines, sync.Mutex wakes a waiter at Unlock), and syncer.Sync()
\* returns. Nothing makes a request arrive, and nothing says which of
\* several runnable goroutines goes first.
Scheduled == WF_vars(Runs)
SpecLive == Init /\ [][Next]_vars /\ Scheduled

InitG == ServerIdle /\ InitGit /\ SSHIdle /\ TransfersIdle /\ RunIdle
SpecGit == InitG /\ [][NextGit]_vars

\* One job of the git strategy or one job of the ssh strategy.
InitSync ==
    /\ ServerIdle /\ RunIdle /\ TransfersIdle
    /\ \/ InitGit /\ SSHIdle
       \/ GitIdle /\ InitSSH
NextSync == NextGit \/ NextSSH
SpecSync == InitSync /\ [][NextSync]_vars

\* One call of CreateSyncer.
InitF ==
    /\ InitService /\ MainServing /\ InitFactory
    /\ GitIdle /\ SSHIdle /\ TransfersIdle /\ RunIdle
SpecFactory == InitF /\ [][NextFactory]_vars

\* One job of the git or of the ssh strategy in a process that may be told
\* to shut down; a goroutine takes no step once the process has exited.
NextShutdown ==
    \/ proc # "exited" /\ NextSync
    \/ MainSignal
    \/ MainReturn
SpecShutdown == InitSync /\ [][NextShutdown]_vars

\* One job of the http strategy.
InitH == ServerIdle /\ GitIdle /\ SSHIdle /\ InitHTTP /\ S3Idle /\ RunIdle
SpecHTTP == InitH /\ [][NextHTTP]_vars

\* One job of the s3 strategy.
InitS == ServerIdle /\ GitIdle /\ SSHIdle /\ HTTPIdle /\ InitS3 /\ RunIdle
SpecS3 == InitS /\ [][NextS3]_vars


\* =========================================================================
\* Properties
\* =========================================================================

\* Background tasks that have been launched and whose Sync() has not returned.
ExecutingSyncs == {p \in Requests : task[p] \in {"spawned", "syncing"}}

\* C1: under every interleaving of concurrent StartSync calls at most one
\* strategy Sync() is executing, and a StartSync call that found
\* syncInProgress true returned an error and launched no background task.
C1_SingleFlight ==
    /\ Cardinality(ExecutingSyncs) <= 1
    /\ \A p \in Requests : ssErr[p] = ErrBusy => task[p] = "none"

\* C1 witness: one sync is executing and another StartSync was turned away.
C1_Witness ==
    \E p, q \in Requests : p # q /\ task[p] = "syncing" /\ ssErr[q] = ErrBusy

\* C2 (as claimed): a request that is handled while an earlier accepted sync
\* is still executing (its StartSync found syncInProgress true) is answered
\* with 503, never with 201 or 400.
C2_BusyAnsweredWith503 ==
    \A p \in Requests :
        (resp[p].code # 0 /\ ssErr[p] = ErrBusy) => resp[p].code = StatusServiceUnavailable

\* C3: syncInProgress goes from true to false exactly when the deferred
\* function of an accepted job's goroutine runs, after that job's Sync()
\* returned (ok or error) and while no Sync() is running; a job's goroutine
\* does so once (done is final); no other step clears the flag.
C3_ClearedOnceAfterSync ==
    [][ /\ (syncInProgress /\ ~syncInProgress') <=>
             (\E p \in Requests : task[p] # "done" /\ task'[p] = "done")
        /\ \A p \in Requests :
             (task[p] # "done" /\ task'[p] = "done") =>
                 /\ task[p] = "resetting"
                 /\ syncOutcome[p] \in {"ok", "error"}
                 /\ ExecutingSyncs = {}
        /\ \A p \in Requests : task[p] = "done" => task'[p] = "done"
      ]_vars

\* C3 witness: a job whose Sync() failed has cleared the flag, and a request
\* that was rejected as busy has been answered.
C3_Witness ==
    \E p, q \in Requests :
        /\ task[p] = "done" /\ syncOutcome[p] = "error" /\ ~syncInProgress
        /\ ssErr[q] = ErrBusy /\ resp[q].code # 0

\* ---- safe replace

CloneFailedMsg == "clone failed, target directory preserved"
BackupFailedMsg == "failed to backup target directory, target preserved"
RestoredMsg == "failed to move temporary clone to target, target restored"
RestoreFailedMsg == "failed to move temp and failed to restore backup"

\* safeCloneWithReplace has been entered (and possibly has returned).
SafeReplaceEntered ==
    \/ gpc \in {"sr_mkdtemp", "sr_clone", "sr_clone_run", "sr_clone_show", "sr_backup", "sr_install", "sr_rollback",
                "sr_remove_backup", "sr_deferred"}
    \/ stagingMade
    \/ gitResult.msg = "failed to create temporary directory"

\* A tree that is what is left of tree t after part of it was deleted.
RemnantOf(d, t) ==
    /\ d.exists
    /\ d.entries \subseteq t.entries
    /\ d.origin = t.origin

\* C4: if the clone into staging fails, the target is as before, no rename
\* was attempted, the clone's error is returned, and staging is gone once
\* safe replace has returned.
C4_CloneFailureLeavesTarget ==
    gitResult.msg = CloneFailedMsg =>
        /\ gitResult.status = "error"
        /\ gitResult.cause \in CloneErrors
        /\ fs["target"] = pre
        /\ renames = <<>>
        /\ (gpc = "done" => ~fs["tmp"].exists)

\* C4 witness: safe replace returned after a failed staging clone.
C4_Witness ==
    gpc = "done" /\ gitResult.msg = CloneFailedMsg /\ pre.entries # {}

\* C5 (as claimed): at every point during and after a safe replace the
\* target holds the complete pre-sync tree or the complete new tree.
C5_TargetOldOrNew ==
    SafeReplaceEntered => fs["target"] \in {pre, ClonedTree}

\* C5 (amended): at every point during and after a safe replace the target
\* holds the complete pre-sync tree, the complete new tree, or does not
\* exist; it does not exist only from the backup rename until the install
\* or rollback rename succeeds (for good if both fail), and then the backup
\* holds the complete pre-sync tree; it holds the new tree only after the
\* install rename succeeded.
C5_TargetOldNewOrAbsent ==
    SafeReplaceEntered =>
        /\ fs["target"] \in {pre, ClonedTree, Absent}
        /\ fs["target"] = Absent =>
              /\ fs["backup"] = pre
              /\ \/ gpc \in {"sr_install", "sr_rollback"}
                 \/ gitResult.msg = RestoreFailedMsg
        /\ fs["target"] = ClonedTree =>
              /\ gpc \in {"sr_remove_backup", "sr_deferred", "existing_deferred", "done"}
              /\ gitResult.status # "error"

\* C5 witness: safe replace has returned and the target does not exist.
C5_Witness ==
    gpc = "done" /\ stagingMade /\ fs["target"] = Absent /\ fs["backup"] = pre

\* C6: if the install rename fails and the rollback rename succeeds, the
\* job fails, the target holds its original content and neither staging
\* nor backup remains.
C6_RollbackRestoresTarget ==
    (gpc = "done" /\ gitResult.msg = RestoredMsg) =>
        /\ gitResult.status = "error"
        /\ fs["target"] = pre
        /\ ~fs["tmp"].exists
        /\ ~fs["backup"].exists

\* C6 witness: the three renames were made and the job ended restored.
C6_Witness ==
    /\ gpc = "done"
    /\ gitResult.msg = RestoredMsg
    /\ renames = <<"target->backup", "tmp->target", "backup->target">>

\* C7: if both the install rename and the rollback rename fail, the error
\* names the target path and the backup path and the backup holds the
\* complete original content.
C7_DoubleFailureNamesBothPaths ==
    gitResult.msg = RestoreFailedMsg =>
        /\ gitResult.status = "error"
        /\ {"target", "backup"} \subseteq gitResult.paths
        /\ fs["backup"] = pre

\* C7 witness: the job ended after both renames failed.
C7_Witness ==
    /\ gpc = "done"
    /\ gitResult.msg = RestoreFailedMsg
    /\ Len(renames) = 3
    /\ ~fs["target"].exists

\* C8: if renaming the target to the backup name fails, the job fails, the
\* target keeps its original content, no backup exists, and staging is gone
\* once safe replace has returned.
C8_BackupRenameFailure ==
    gitResult.msg = BackupFailedMsg =>
        /\ gitResult.status = "error"
        /\ fs["target"] = pre
        /\ ~fs["backup"].exists
        /\ renames = <<"target->backup">>
        /\ (gpc = "done" => ~fs["tmp"].exists)

\* C8 witness: the job ended after the backup rename failed.
C8_Witness ==
    gpc = "done" /\ gitResult.msg = BackupFailedMsg /\ stagingMade

\* The staged clone and both renames succeeded and safe replace returned.
ReplaceCommitted ==
    gpc = "done" /\ renames = <<"target->backup", "tmp->target">>

\* C9: when the staged clone and both renames succeed, safe replace returns
\* success with the new tree at the target and no staging; the backup is
\* deleted, or, if deleting it failed, what is left of it is the only
\* leftover.
C9_SuccessEvenIfBackupStays ==
    ReplaceCommitted =>
        /\ gitResult = GitOK
        /\ fs["target"] = ClonedTree
        /\ ~fs["tmp"].exists
        /\ (fs["backup"].exists => RemnantOf(fs["backup"], pre))

\* C9 witness: success returned with an orphaned backup.
C9_Witness ==
    ReplaceCommitted /\ fs["backup"].exists /\ gitResult.status = "ok"

\* C10 (as claimed): after a git sync ends on any exit path no staging
\* directory and no backup directory remains.
C10_NoLeftovers ==
    gpc = "done" => (~fs["tmp"].exists /\ ~fs["backup"].exists)

\* C10 (amended): after a git sync ends on any exit path no staging
\* directory remains; a backup directory remains only when the rollback
\* rename failed (it then holds the original content) or when deleting it
\* after a successful replace failed.
C10_OnlyBackupMayRemain ==
    gpc = "done" =>
        /\ ~fs["tmp"].exists
        /\ fs["backup"].exists =>
              \/ (gitResult.msg = RestoreFailedMsg /\ fs["backup"] = pre)
              \/ (ReplaceCommitted /\ gitResult.status = "ok"
                    /\ RemnantOf(fs["backup"], pre))

\* C10 witness: a job that made a staging directory ended on the timeout
\* path.
C10_Witness ==
    /\ gpc = "done"
    /\ stagingMade
    /\ details.privateKey
    /\ gitResult.cause = "git clone timed out"
    /\ ~fs["backup"].exists

\* ------------------------------------------------------------------- C11
\* Positions of a git job inside each of the three paths of Sync.
FreshClonePCs == {"fresh_clone", "fresh_clone_run", "fresh_clone_show"}
InPlacePCs ==
    {"in_place", "ip_fetch", "ip_default", "ip_set_head", "ip_default_retry",
     "ip_try_main", "ip_try_master", "ip_try_develop", "ip_checkout",
     "ip_checkout_master", "ip_reset", "ip_clean"}
SafeReplacePCs == {"sr_mkdtemp", "sr_clone", "sr_clone_run", "sr_clone_show", "sr_backup", "sr_install",
                   "sr_rollback", "sr_remove_backup", "sr_deferred"}

\* The origin URLs that name the requested repository: the same host and
\* path, with or without credentials, a ".git" or a trailing "/".
MatchingOrigins == {RequestedURL, RequestedURLBare, RequestedURLSlash, AuthenticatedURL}

\* The staged clone of a safe replace has succeeded.
StagedCloneSucceeded == stagingMade /\ head # "none"

\* C11: Git Sync chooses its path from the target's state. A fresh clone,
\* straight into the target with no staging directory and no rename, runs
\* only for an absent or empty target; the in-place update only for a
\* repository whose origin names the requested repository; safe replace
\* only for a repository with another origin or for a non-empty directory
\* that is no repository. A job that succeeded took the path of its target
\* state, and as long as the staged clone of a safe replace has not
\* succeeded the target is exactly the tree the job found.
C11_PathFromTargetState ==
    /\ gpc \in FreshClonePCs =>
          /\ pre \in {Absent, EmptyDir}
          /\ ~stagingMade /\ renames = <<>>
    /\ gpc \in InPlacePCs =>
          /\ pre.origin \in MatchingOrigins
          /\ ~stagingMade /\ renames = <<>>
    /\ gpc \in SafeReplacePCs =>
          \/ pre.origin \in OriginURLs \ MatchingOrigins
          \/ pre.origin = "none" /\ pre.entries # {}
    /\ (gpc = "done" /\ gitResult = GitOK) =>
          /\ pre \in {Absent, EmptyDir} => (~stagingMade /\ fs["target"] = ClonedTree)
          /\ pre.origin \in MatchingOrigins =>
                (~stagingMade /\ fs["target"].entries = NewFiles)
          /\ (pre.entries # {} /\ pre.origin \notin MatchingOrigins) =>
                (stagingMade /\ fs["target"] = ClonedTree)
    /\ (SafeReplaceEntered /\ ~StagedCloneSucceeded) =>
          (fs["target"] = pre /\ renames = <<>>)

\* C11 witness: a repository with another origin was replaced through
\* staging, and the job succeeded.
C11_Witness ==
    /\ gpc = "done" /\ gitResult = GitOK
    /\ pre.origin = OtherURL
    /\ stagingMade /\ fs["target"] = ClonedTree


\* ------------------------------------------------------------------- C12
\* C12: once Sync of the git strategy or of the ssh strategy has returned,
\* with success or with any error, no temporary private-key file the call
\* created exists any more; this holds also for a safe replace run from
\* inside syncExistingRepo, where cloneRepo makes a second key file while
\* the first one still exists.
C12_NoKeyFileAfterSync ==
    /\ gpc = "done" => keyFiles = {}
    /\ spc = "done" => keyFiles = {}

\* C12 witness (git): a job with a private key went through
\* syncExistingRepo into safe replace, where both key files existed at
\* once, and has returned.
C12_Witness ==
    /\ gpc = "done"
    /\ details.privateKey
    /\ pre.origin = OtherURL
    /\ head # "none"

\* Both key files of a nested clone exist at the same time.
C12_BothKeysHeld == keyFiles = {KeyOfExisting, KeyOfClone}

\* An ssh job with a key has returned after rsync ran.
C12_SSHReturned ==
    spc = "done" /\ sshDetails.privateKey /\ rsyncSource # "none"


\* ------------------------------------------------------------------- C13
\* C13 (as claimed): a request with an unknown kind or a missing top-level
\* field is answered with a validation error whether or not a sync is in
\* progress: StartSync returns it the validation error, and the response
\* is the 400 of the validation or of the binding.
C13_ValidationBeforeBusy ==
    \A p \in Requests :
        reqKind[p] \in {"invalid", "missing_field"} =>
            /\ ssErr[p] \in {ErrNone, ErrValidation}
            /\ resp[p].code # 0 =>
                  /\ resp[p].code = StatusBadRequest
                  /\ resp[p].details \in {ErrValidation, "bind error"}

\* C13 (amended): StartSync reads the busy flag before it validates and
\* validates before it writes the flag. validateRequest runs only under
\* the lock after the flag was read as false; a request with an unknown
\* kind or a missing top-level field is never accepted and is answered
\* with the validation (or binding) error, or, when a sync is in progress
\* at the handler's or at StartSync's check, as busy; only a request that
\* fails validateRequest gets the validation error.
C13_BusyBeforeValidation ==
    /\ \A p \in Requests :
          hpc[p] = "ss_validate" => (~syncInProgress /\ mutex = {HandlerOf(p)})
    /\ \A p \in Requests : ssErr[p] = ErrValidation => reqKind[p] = "invalid"
    /\ \A p \in Requests :
          reqKind[p] \in {"invalid", "missing_field"} =>
              /\ task[p] = "none"
              /\ ssErr[p] \in {ErrNone, ErrValidation, ErrBusy}
              /\ resp[p].code # 0 =>
                    \/ /\ resp[p].code = StatusBadRequest
                       /\ resp[p].details \in {ErrValidation, "bind error", ErrBusy}
                    \/ resp[p].code = StatusServiceUnavailable

\* C13 witness: a request of unknown kind got StartSync's busy error while
\* another request's sync was executing.
C13_Witness ==
    \E p \in Requests :
        /\ reqKind[p] = "invalid"
        /\ ssErr[p] = ErrBusy
        /\ resp[p].code = StatusBadRequest
        /\ ExecutingSyncs # {}

\* ------------------------------------------------------------------- C14
\* StartSync has returned an error to request p.
StartSyncFailed(p) == ssErr[p] # ErrNone

\* C14: a StartSync call that returns an error (busy, validation failure,
\* syncer construction failure) leaves syncInProgress as it is and starts
\* no Sync(): the step in which the error is returned changes neither the
\* flag nor any background task, and the request never has a task.
C14_ErrorLeavesFlagAndTasks ==
    /\ [](\A p \in Requests : StartSyncFailed(p) => task[p] = "none")
    /\ [][\A p \in Requests :
             (~StartSyncFailed(p) /\ StartSyncFailed(p)') =>
                 (syncInProgress' = syncInProgress /\ task' = task)]_vars

\* C14 witness: StartSync returned a construction error to a request,
\* which has been answered and has no background task.
C14_Witness ==
    \E p \in Requests :
        /\ ssErr[p] = ErrCreateSyncer
        /\ hpc[p] = "done"
        /\ task[p] = "none"

\* ------------------------------------------------------------------- C16
\* C16: StartSync returns only busy and validation errors (those of
\* validateRequest and of the parsing of the details); no failure of a
\* connection, of authentication or of the file system reaches the caller,
\* and a request that was accepted is answered 201 whatever its Sync()
\* returns.
C16_OnlyValidationAndBusyReported ==
    \A p \in Requests :
        /\ ssErr[p] \in {ErrNone, ErrBusy, ErrValidation, ErrCreateSyncer}
        /\ (task[p] # "none" /\ resp[p].code # 0) => resp[p].code = StatusCreated

\* ------------------------------------------------------------------- C17
\* A git body with a username and no password, or a password and no
\* username.
GitHalfCredentials(b) ==
    b.type = "git" /\ b.details.isObject /\ b.details.user # b.details.password

\* C17: a git spec with a username and no password, or a password and no
\* username, is rejected before the job is accepted: StartSync returns an
\* error for it, the busy flag is not set for it and no Sync() is started.
C17_HalfCredentialsRejected ==
    \A p \in Requests :
        GitHalfCredentials(body[p]) =>
            /\ task[p] = "none"
            /\ resp[p].code # StatusCreated


\* ------------------------------------------------------------------- C15
\* C15: building a strategy makes no network request, for any source kind:
\* whenever CreateSyncer has returned, with a syncer or with an error, it
\* has made none.
C15_CreateSyncerDoesNoIO ==
    fpc \in {"built", "failed"} => netCalls = 0

\* ------------------------------------------------------------------- C18
\* C18: an ssh spec without a remote path is rejected at build time: for
\* such a source CreateSyncer never returns a syncer.
C18_SSHPathMandatory ==
    (source.type = "ssh" /\ ~source.details.path) => fpc # "built"

\* ------------------------------------------------------------------- C19
\* A source whose credentials the factory must refuse: an ssh spec with a
\* password together with a private key or a key path, a git spec with a
\* username or a password together with a private key.
ConflictingCredentials(src) ==
    \/ /\ src.type = "ssh"
       /\ src.details.password
       /\ (src.details.privateKey \/ src.details.key_path)
    \/ /\ src.type = "git"
       /\ (src.details.user \/ src.details.password)
       /\ src.details.privateKey

\* C19: for every ssh spec that carries a password together with a
\* private key or key path, and every git spec that carries a username or
\* password together with a private key, CreateSyncer returns an error and
\* no syncer; it does so in the parsing, before any constructor runs.
C19_ConflictingCredentialsRejected ==
    ConflictingCredentials(source) =>
        /\ fpc \in {"parse", "failed"}
        /\ fpc = "failed" => facErr # "none"
        /\ netCalls = 0

\* C19 witness: an ssh spec complete but for carrying a password and a key
\* path was refused for that.
C19_Witness ==
    /\ fpc = "failed"
    /\ source.type = "ssh"
    /\ source.details.host /\ source.details.user
    /\ source.details.password /\ source.details.key_path /\ ~source.details.privateKey
    /\ facErr = "password and privateKey/key_path cannot be provided at the same time"


\* ------------------------------------------------------------------- C20
\* C20: a git job that asks for branch main of a remote whose only branch
\* is master does not fail for want of the branch, whatever the state of
\* the target, and when it succeeds master is checked out.
C20_MainFallsBackToMaster ==
    (details.branch = "main" /\ remote.branches = {"master"}) =>
        /\ gitResult.msg # GitCloneNoBranch
        /\ gitResult.cause # GitCloneNoBranch
        /\ gitResult = GitOK => head = "master"

\* The in-place update does fall back: main was asked for, the remote has
\* only master, and the job succeeded with master checked out.
C20_InPlaceFallback ==
    /\ gpc = "done" /\ gitResult = GitOK
    /\ details.branch = "main" /\ remote.branches = {"master"}
    /\ branch = "master" /\ head = "master"

\* ------------------------------------------------------------------- C30

\* The commands of the in-place update and the step each belongs to:
\* fetch, branch determination (getDefaultBranch and every command it
\* runs), checkout, hard reset, clean.
StepOf(cmd) ==
    CASE cmd = "git fetch" -> 1
      [] cmd \in {"git symbolic-ref", "git remote set-head",
                  "git checkout (getDefaultBranch)"} -> 2
      [] cmd = "git checkout" -> 3
      [] cmd = "git reset" -> 4
      [] cmd = "git clean" -> 5
      [] OTHER -> 0

\* The step an error of the in-place update comes from.
FailedStep(msg) ==
    CASE msg = "git fetch failed" -> 1
      [] msg = "failed to get default branch" -> 2
      [] msg \in {"git checkout -B failed", "git checkout -B master failed"} -> 3
      [] msg = "git reset failed" -> 4
      [] msg = "git clean failed" -> 5
      [] OTHER -> 0

\* The commands of those five steps the job has run, in order.
InPlaceOps == SelectSeq(ops, LAMBDA o : StepOf(o.cmd) > 0)

\* Some command of step k ran before position i and succeeded.
DoneBefore(s, k, i) == \E j \in 1 .. (i - 1) : StepOf(s[j].cmd) = k /\ s[j].out = "ok"

\* C30: in a git in-place update the commands run in the order fetch,
\* branch determination, checkout, hard reset, clean; a step is started
\* only after the steps before it succeeded, an error that comes from one
\* step leaves every later step not run, a job whose last command did not
\* succeed returns an error, and a job that returns nil has run the clean.
C30_InPlaceStepsInOrder ==
    LET s == InPlaceOps IN
    /\ \A i, j \in DOMAIN s : i < j => StepOf(s[i].cmd) <= StepOf(s[j].cmd)
    /\ \A i \in DOMAIN s :
          /\ StepOf(s[i].cmd) > 1 => DoneBefore(s, 1, i)
          /\ StepOf(s[i].cmd) > 3 => DoneBefore(s, 3, i)
          /\ StepOf(s[i].cmd) > 4 => DoneBefore(s, 4, i)
    /\ FailedStep(gitResult.msg) > 0 =>
          \A i \in DOMAIN s : StepOf(s[i].cmd) <= FailedStep(gitResult.msg)
    /\ (gpc = "done" /\ s # <<>>) =>
          IF s[Len(s)].out = "ok"
             THEN gitResult = GitOK /\ s[Len(s)].cmd = "git clean"
             ELSE gitResult.status = "error" /\ FailedStep(gitResult.msg) = StepOf(s[Len(s)].cmd)

\* An in-place update with no branch requested ran all five steps.
C30_Witness ==
    /\ gpc = "done"
    /\ gitResult = GitOK
    /\ [i \in DOMAIN InPlaceOps |-> InPlaceOps[i].cmd]
         = <<"git fetch", "git symbolic-ref", "git checkout", "git reset", "git clean">>

\* ------------------------------------------------------------------- C29

\* The operation at position i of the job is cmd and ended as out says.
OpIs(i, cmd, out) == ops[i].cmd = cmd /\ ops[i].out = out

\* C29: in an ssh job, whatever the credentials, rsync is started only
\* after the connectivity probe succeeded; a failed probe makes Sync()
\* return "SSH connection test failed", which no failed transfer returns,
\* and rsync is never started.
C29_ProbeBeforeTransfer ==
    /\ \A i \in DOMAIN ops :
          ops[i].cmd = "rsync" => \E j \in 1 .. (i - 1) : OpIs(j, "ssh probe", "ok")
    /\ \A i \in DOMAIN ops :
          OpIs(i, "ssh probe", "failed") =>
             /\ sshResult = SSHErr("SSH connection test failed")
             /\ \A j \in DOMAIN ops : ops[j].cmd # "rsync"
    /\ sshResult.msg = "SSH connection test failed" =>
          \E i \in DOMAIN ops : OpIs(i, "ssh probe", "failed")
    /\ sshResult.msg \in {"rsync failed", "sync operation timed out"} =>
          \E i \in DOMAIN ops : ops[i].cmd = "rsync" /\ ops[i].out # "ok"

\* A job with a password returned after its probe failed.
C29_Witness ==
    /\ spc = "done"
    /\ sshDetails.password
    /\ \E i \in DOMAIN ops : OpIs(i, "ssh probe", "failed")
    /\ sshResult = SSHErr("SSH connection test failed")

\* ------------------------------------------------------------------- C25

\* A text has a secret of the job in the clear.
Cleartext(text) ==
    \E i \in DOMAIN text : \E j \in DOMAIN text[i] : text[i][j] \in {Password, KeyMaterial}

\* C25: no line a job has logged holds its password or its private key in
\* the clear.
C25_NoSecretLogged == \A l \in logged : ~Cleartext(l.text)

\* ------------------------------------------------------------------- C22

\* C22: one deadline bounds the whole job, so no operation of a job is
\* started once the timeout has elapsed since Sync() began.
C22_NothingStartedAfterDeadline == \A i \in DOMAIN ops : ~ops[i].late

\* ------------------------------------------------------------------- C21

\* The errors of Sync() that say a deadline expired.
TimeoutErrors ==
    {"git clone timed out", "git command timed out", "git config command timed out",
     "git symbolic-ref command timed out", "git symbolic-ref retry command timed out",
     "sync operation timed out"}

\* Some operation of the job was still running when its deadline came.
DeadlineExpired == \E i \in DOMAIN ops : ops[i].out = "timed out"

\* C21: no operation of a job runs on without end, and a job that has
\* returned after the deadline expired during one of its operations has
\* returned an error that says so.
C21_TimeoutReported ==
    /\ \A i \in DOMAIN ops : ops[i].out # "never"
    /\ (gpc = "done" /\ DeadlineExpired) =>
          /\ gitResult.status = "error"
          /\ gitResult.msg \in TimeoutErrors \/ gitResult.cause \in TimeoutErrors
    /\ (spc = "done" /\ DeadlineExpired) =>
          /\ sshResult.status = "error"
          /\ sshResult.msg \in TimeoutErrors

\* ------------------------------------------------------------------- C23

\* C23: the syncer built for a request has the timeout the request
\* supplies when it supplies one, and the configured default otherwise.
C23_RequestTimeoutUsed ==
    \A p \in Requests :
        syncerTimeout[p] # "none" =>
            syncerTimeout[p] = (IF body[p].timeout # "" THEN body[p].timeout
                                                        ELSE DefaultTimeout)

\* ------------------------------------------------------------------- C24

\* C24: when the process has exited after a termination signal, no
\* temporary key file and no staging directory of the job it was running
\* is left.
C24_NothingLeftAtExit ==
    proc = "exited" => keyFiles = {} /\ ~fs["tmp"].exists

\* ------------------------------------------------------------------- C26

\* C26: every file an http job has created lies inside its target
\* directory.
C26_WrittenInsideTarget == \A f \in created : Inside(f, Clean(TargetPath))

\* ------------------------------------------------------------------- C27

\* The file name the resolution order gives: the filename of the
\* Content-Disposition header if the response has the header and the
\* filename is not empty, else the last segment of the URL's path, else
\* "downloaded_file".
ResolvedName(job) ==
    IF job.header.present /\ job.header.value # <<>> THEN job.header.value
    ELSE IF TrimSlashes(job.path) # <<>> THEN Base(job.path)
    ELSE <<"downloaded_file">>

\* C27: the name under which an http job saves its download is the one
\* the resolution order gives.
C27_FilenameResolution ==
    dpc \in {"create", "copy"} \/ (dpc = "done" /\ outPath # <<>>) =>
        filename = ResolvedName(httpJob)

\* ------------------------------------------------------------------- C28

\* The path of a key relative to the target: the elements of the key
\* that follow the prefix, or the last element of the key when none
\* follows.
RelativeElements(k, prefix) ==
    LET rest == SubSeq(k, Len(prefix) + 1, Len(k))
        els == Split(k)
    IN  IF rest = <<>> THEN <<els[Len(els)]>>
        ELSE SelectSeq(Split(rest), LAMBDA e : e # <<>>)

\* The keys of the listing of a job that do not end in "/".
ObjectKeys(job) == {k \in job.bucket : HasPrefix(k, job.prefix) /\ ~EndsInSlash(k)}

\* C28: an s3 job creates files only for keys of its listing that do not
\* end in "/", each at the target followed by the key without the prefix
\* (the key's base name when nothing is left); a job that succeeded has
\* created the file of every such key; and the keys a/, a/x.txt and
\* a/b/y.txt under the prefix a/ give exactly x.txt and b/y.txt.
C28_KeysToFiles ==
    /\ \A d \in downloads :
          /\ d.key \in ObjectKeys(s3Job)
          /\ d.path = <<<<"data">>, <<"vol">>>> \o RelativeElements(d.key, s3Job.prefix)
    /\ s3Result = S3OK => {d.key : d \in downloads} = ObjectKeys(s3Job)
    /\ (/\ s3Result = S3OK
        /\ s3Job.prefix = <<"a", "/">>
        /\ s3Job.bucket = {<<"a", "/">>, <<"a", "/", "x.txt">>, <<"a", "/", "b", "/", "y.txt">>})
          => Files = {<<<<"data">>, <<"vol">>, <<"x.txt">>>>,
                      <<<<"data">>, <<"vol">>, <<"b">>, <<"y.txt">>>>}

\* The job of the example has succeeded.
C28_Witness ==
    /\ zpc = "done"
    /\ s3Result = S3OK
    /\ s3Job.prefix = <<"a", "/">>
    /\ s3Job.bucket = {<<"a", "/">>, <<"a", "/", "x.txt">>, <<"a", "/", "b", "/", "y.txt">>}
    /\ Cardinality(downloads) = 2

\* ------------------------------------------------------------------- C31

\* The candidates getDefaultBranch has probed, in order.
Trials == SelectSeq(ops, LAMBDA o : o.cmd = "git checkout (getDefaultBranch)")

\* C31: in an in-place update with no branch requested the candidates
\* are probed in the order main, master, develop, each only after the
\* one before it failed, and the job fails with the error of the branch
\* resolution only after all three have been probed and have failed.
C31_FallbackProbing ==
    /\ gpc = "ip_try_main" => Trials = <<>>
    /\ gpc = "ip_try_master" => Len(Trials) = 1 /\ Trials[1].out # "ok"
    /\ gpc = "ip_try_develop" => Len(Trials) = 2 /\ \A i \in 1 .. 2 : Trials[i].out # "ok"
    /\ gitResult.msg = "failed to get default branch" =>
          Len(Trials) = 3 /\ \A i \in 1 .. 3 : Trials[i].out # "ok"

\* ------------------------------------------------------------------- C32

\* The errors of NewS3Syncer that come from a failed connection test.
ProbeErrors ==
    {"failed to connect to AWS S3",
     "failed to establish S3 connection with both path styles"}

\* C32: NewS3Syncer makes at most two connection tests, the second with
\* the path style opposite to that of the first (which is path style
\* unless the endpoint is AWS), and it fails because of a connection
\* test only when both have been made and have failed.
C32_OneRetryOppositeStyle ==
    /\ netCalls <= 2
    /\ (fpc = "s3_retry_test" \/ netCalls = 2) => pathStyle = source.details.aws
    /\ (fpc = "failed" /\ facErr \in ProbeErrors) => netCalls = 2

\* ------------------------------------------------------------------- C33

\* The errors of Sync() that come from the download of an object.
DownloadErrors == {"failed to download object", "S3 download operation timed out"}

\* The downloads the job has started.
Gets == SelectSeq(ops, LAMBDA o : o.cmd = "s3 get")

\* C33: when the download of an object has failed, the job has ended
\* with an error, the file of that object is gone, no later object was
\* attempted, and the file of every object before it is in the target.
C33_FailedDownload ==
    (\E i \in DOMAIN Gets : Gets[i].out # "ok") =>
        LET all == listObjects(s3Job)
            n == Len(Gets)
        IN  /\ zpc = "done"
            /\ s3Result.status = "error" /\ s3Result.msg \in DownloadErrors
            /\ \A i \in 1 .. (n - 1) : Gets[i].out = "ok"
            /\ objects = SubSeq(all, n, Len(all))
            /\ LocalPath(all[n], s3Job.prefix) \notin Files
            /\ downloads = {[key |-> all[i], path |-> LocalPath(all[i], s3Job.prefix)] :
                               i \in 1 .. (n - 1)}

\* The second download of a job with three objects failed.
C33_Witness ==
    /\ zpc = "done"
    /\ Len(listObjects(s3Job)) = 3
    /\ Len(Gets) = 2
    /\ Gets[2].out = "failed"
    /\ Cardinality(downloads) = 1

\* ------------------------------------------------------------------- C34

\* The response of the job has a status outside 200..299.
Non2xx == httpJob.response.code \notin 200 .. 299

\* The request of the job was answered.
Answered == \E i \in DOMAIN ops : ops[i].cmd = "http get" /\ ops[i].out = "ok"

\* C34: an http job whose response has a status outside 2xx creates no
\* file, and once the response is there the job has failed with
\* "HTTP request failed" followed by the status text.
C34_Non2xxFails ==
    Non2xx =>
        /\ created = {}
        /\ Answered => /\ dpc = "done"
                       /\ httpResult = HTTPStatusErr(httpJob.response)
                       /\ httpResult.text = httpJob.response.text

\* A job was answered 404.
C34_Witness ==
    /\ dpc = "done"
    /\ Answered
    /\ httpJob.response.code = 404
    /\ httpResult.text = "404 Not Found"

\* ------------------------------------------------------------------- C35

\* The background tasks that exist and have not yet cleared the flag.
UnfinishedTasks == {p \in Requests : task[p] \in {"spawned", "syncing", "returned", "resetting"}}

\* C35: from the launch of a background task until its deferred function
\* clears the flag, and so all the time its Sync() is executing,
\* syncInProgress is true.
C35_FlagSetWhileSyncing == UnfinishedTasks # {} => syncInProgress

\* A request was answered busy by the handler's IsSyncInProgress while
\* the Sync() of another was executing.
C35_Witness ==
    \E p, q \in Requests :
        /\ task[p] = "syncing"
        /\ resp[q].code = StatusServiceUnavailable

\* ------------------------------------------------------------------- C36

\* Request q has passed the busy check of StartSync with a body from
\* which a syncer is built without a connection test.
PassedBusyCheck(q) ==
    /\ hpc[q] = "ss_validate"
    /\ reqKind[q] = "good"
    /\ body[q].type # "s3"

Installed ==
    /\ Len(renames) = 2
    /\ renames[2] = "tmp->target"
    /\ gpc # "sr_rollback"

\* C37: during and after a safe replace, until the new tree is installed,
\* the complete original content is at the target or at the backup; and
\* the backup stops holding it only by being renamed back to the target
\* or by being deleted after the staging-to-target rename succeeded.
C37_OriginalKeptUntilInstalled ==
    /\ [](SafeReplaceEntered /\ ~Installed => fs["target"] = pre \/ fs["backup"] = pre)
    /\ [][(fs["backup"] = pre /\ fs["backup"]' # pre) =>
              \/ fs["target"]' = pre
              \/ Installed /\ gpc = "sr_remove_backup" /\ fs["target"] = ClonedTree]_vars

\* C37 witness: the backup holds the original content, the target is
\* gone and the new tree is not installed yet.
C37_Witness ==
    /\ gpc = "sr_install"
    /\ fs["backup"] = pre
    /\ fs["target"] = Absent
    /\ pre.entries # {}

\* C38: GIT_SSH_COMMAND is set only inside a git job that has a private
\* key, and it is unset when the job has returned, on every exit path.
C38_SSHCommandOnlyDuringKeyJob ==
    /\ sshCommand # "unset" =>
          /\ details.privateKey
          /\ gpc \notin {"validate", "done"}
          /\ sshCommand \in keyFiles
    /\ gpc = "done" => sshCommand = "unset"

\* C38 witness: a job with a private key went from syncExistingRepo into a
\* safe replace that installed the new tree, so the variable was set twice
\* and unset twice, and has returned.
C38_Witness ==
    /\ ReplaceCommitted
    /\ details.privateKey
    /\ pre.origin # "none"
    /\ sshCommand = "unset"

\* The commands of the job that have run, by name.
RanOK(cmd) == \E i \in 1 .. Len(ops) : ops[i].cmd = cmd /\ ops[i].out = "ok"
Ran(cmd) == \E i \in 1 .. Len(ops) : ops[i].cmd = cmd

====
